---- MODULE Spec2Model ----
(***************************************************************************)
(* The AI pedestrian shopping system of isometric-city:                    *)
(*   aiPedestrianConfig   (AI_PEDESTRIAN_CONFIG, getShoppingProbabilityByType) *)
(*   aiPedestrianSystem   (initialize / update / start / complete shopping)*)
(*   aiPedestrianIntegration (spawn, batch update, initial population,     *)
(*                            clear, statistics)                           *)
(*   gridFinders          (findConnectedWaterTiles, generateTourWaypoints) *)
(*                                                                         *)
(* Numbers.  The code computes in IEEE doubles; the model computes the     *)
(* same expressions exactly, in fixed point:                               *)
(*   satisfaction, progress      thousandths            (One = 1.0)        *)
(*   time (deltaTime, duration)  tenths of a second     (10.1 s = 101)     *)
(*   probabilities, Math.random  ten-thousandths        (RandOne = 1.0)    *)
(*   money                       currency units                            *)
(* The input sets below are chosen so that every division is exact.        *)
(***************************************************************************)
EXTENDS Integers, Sequences, FiniteSets, TLC

VARIABLES
    pedestrians,   \* gameState.pedestrians: the live pedestrian list
    grid,          \* gameState.grid: grid[x][y] for the pedestrian system,
                   \* grid[y][x] for gridFinders; read-only for this core
    gameTime,      \* the driver's clock: the sum of the deltaTimes so far
    pc,            \* the driver's position: "loop", or "spawned" between
                   \* spawnAIPedestrian returning and the caller's push; in
                   \* a grid query "call", "rank", "fill" and "return"
    spawned,       \* the value spawnAIPedestrian returned: << >> is null
    lastOp,        \* the last call and the random numbers it consumed;
                   \* for a grid query or a statistics read its arguments,
                   \* locals and result
    heap           \* the objects that outlive a call: the arrays of
                   \* building types the callers of findFireworkBuildings
                   \* hold, by reference, and the module-level
                   \* cachedFireworkTypesArray and cachedFireworkTypesSet
                   \* of gridFinders

vars == <<pedestrians, grid, gameTime, pc, spawned, lastOp, heap>>

----------------------------------------------------------------------------
(* Number representation *)

\* 1.0 in thousandths: the literal 1 of Math.min(1, ...) and of progress >= 1
One == 1000
\* 1.0 in ten-thousandths: the exclusive upper end of Math.random()
RandOne == 10000
\* the value JavaScript's undefined takes in a numeric field
undefined == 0 - 1

Min(a, b) == IF a < b THEN a ELSE b
Max(a, b) == IF a > b THEN a ELSE b

\* JavaScript's  x || d  on an optional number: 0 and undefined are falsy
Falsy(x) == x = 0 \/ x = undefined
OrElse(x, d) == IF Falsy(x) THEN d ELSE x

----------------------------------------------------------------------------
(* AI_PEDESTRIAN_CONFIG *)

\* maxAIPedestrians is 100 and initialAIPedestrians 20 in the shipped
\* configuration; the configuration is mutable and the model runs the same
\* code with a cap of 2 and an initial population of 1.
maxAIPedestrians == 2
initialAIPedestrians == 1

\* shopping.satisfactionMultiplier 0.3, shopping.budgetMultiplier 0.2, as
\* factors in tenths
satisfactionMultiplier == 3
budgetMultiplier == 2
\* seconds -> tenths of a second
minDuration == 100
maxDuration == 300
minBudget == 500
maxBudget == 2000
maxVisitsPerDay == 3
\* 100 game seconds, in tenths
timeBetweenShops == 1000
\* 0.3 in thousandths
satisfactionGainPerPurchase == 300
\* 0.01 per second = 1 thousandth per tenth of a second
satisfactionDecayRate == 1
\* navigation.searchRange is 10 in the shipped configuration; the model's
\* grids are small and the same search runs with range 2
searchRange == 2
averageItemPrice == 50

AIPedestrianType == {"worker", "shopper", "tourist", "commuter", "leisurer"}

\* getShoppingProbabilityByType, in ten-thousandths
getShoppingProbabilityByType(type) ==
    CASE type = "shopper"  -> 5000
      [] type = "worker"   -> 1500
      [] type = "commuter" -> 2000
      [] type = "tourist"  -> 3000
      [] type = "leisurer" -> 1000
      [] OTHER             -> 1500

\* the fallback of  satisfactionLevel || 0.5  (thousandths)
fallbackSatisfaction == 500
\* the ceiling of  Math.min(0.5, totalProbability)  (ten-thousandths)
probabilityCeiling == 5000
\* the fallback of  shoppingDuration || 1  (one second, in tenths)
fallbackDuration == 10
\* Math.floor(Math.random() * 5) + 1
itemChoices == 5

----------------------------------------------------------------------------
(* The grid: grid[x][y] is a tile; a tile's building is its type, or
   "undefined" when the tile holds no building *)

\* a list of types that takes houses for shops
commercialTypes_withHouses ==
    {"shop_small", "shop_medium", "mall", "office_low", "office_high", "house_small"}

commercialTypes == {"shop_small", "shop_medium", "mall", "office_low", "office_high"}

GridLength(g) == Cardinality(DOMAIN g)

\* a search that starts from twice the limit on the squared distance
initialMinDistance_doubled == 2 * searchRange * searchRange

\* minDistance before the loops
initialMinDistance == searchRange * searchRange

\* findNearestShop's two nested loops, in scan order: x outer, y inner;
\* best is the pair (nearestShop, minDistance) the loops carry
RECURSIVE ScanShop(_, _, _, _, _)
ScanShop(p, g, x, y, best) ==
    LET xEnd   == Min(GridLength(g), p.tileX + searchRange)
        yStart == Max(0, p.tileY - searchRange)
        yEnd   == Min(GridLength(g[0]), p.tileY + searchRange)
    IN  IF x >= xEnd THEN best
        ELSE IF y >= yEnd THEN ScanShop(p, g, x + 1, yStart, best)
        ELSE LET tile     == g[x][y]
                 distance == (x - p.tileX) * (x - p.tileX)
                             + (y - p.tileY) * (y - p.tileY)
             IN  IF /\ tile.building # "undefined"
                    /\ tile.building \in commercialTypes
                    /\ distance < best.minDistance
                 THEN ScanShop(p, g, x, y + 1,
                               [found |-> TRUE, x |-> x, y |-> y,
                                minDistance |-> distance])
                 ELSE ScanShop(p, g, x, y + 1, best)

\* findNearestShop: found = FALSE is the null return
findNearestShop(p, g) ==
    ScanShop(p, g, Max(0, p.tileX - searchRange), Max(0, p.tileY - searchRange),
             [found |-> FALSE, x |-> undefined, y |-> undefined,
              minDistance |-> initialMinDistance])

\* whether findNearestShop raises: once the outer loop runs, its inner loop
\* reads grid[0].length and then .building of every grid[x][y] it visits
findNearestShopRaises(p, g) ==
    LET xs == Max(0, p.tileX - searchRange)
                  ..(Min(GridLength(g), p.tileX + searchRange) - 1)
    IN  /\ xs # {}
        /\ \/ 0 \notin DOMAIN g
           \/ \E x \in xs :
                 \E y \in Max(0, p.tileY - searchRange)
                              ..(Min(GridLength(g[0]), p.tileY + searchRange) - 1) :
                     ~(x \in DOMAIN g /\ y \in DOMAIN g[x])

----------------------------------------------------------------------------
(* aiPedestrianSystem *)

\* a variant that forgets the lower end of the range
RandomBetween_noOffset(u, lo, hi) == (u * (hi - lo)) \div RandOne

\* Math.random() * (hi - lo) + lo, for a draw u in ten-thousandths
RandomBetween(u, lo, hi) == (u * (hi - lo)) \div RandOne + lo

\* initializeAIPedestrianShopping(pedestrian, aiType); u is its Math.random()
initializeAIPedestrianShopping(p, aiType, u) ==
    [p EXCEPT !.isAI = TRUE,
              !.aiType = aiType,
              !.isShopping = FALSE,
              !.shoppingProgress = 0,
              !.shoppingDuration = 0,
              !.currentShopX = undefined,
              !.currentShopY = undefined,
              !.shoppingActivity = "undefined",
              !.shoppingBudget = RandomBetween(u, minBudget, maxBudget),
              !.itemsBought = 0,
              !.shopVisitsToday = 0,
              !.lastShoppingTime = 0,
              !.satisfactionLevel = fallbackSatisfaction,
              !.totalMoneySpent = 0]

\* the decay step of updateAIPedestrianShopping
\* the update with the decay at lines 53-59 left out
DecaySatisfaction_skipped(s, deltaTime) == s

DecaySatisfaction(s, deltaTime) ==
    IF ~Falsy(s) THEN Max(0, s - satisfactionDecayRate * deltaTime) ELSE s

\* totalProbability of shouldGoShopping, in ten-thousandths
totalProbability(p) ==
    LET shoppingProbability == getShoppingProbabilityByType(p.aiType)
        satisfactionFactor  ==
            (One - OrElse(p.satisfactionLevel, fallbackSatisfaction))
            * satisfactionMultiplier
        budgetFactor ==
            (Min(RandOne, (OrElse(p.shoppingBudget, 0) * RandOne) \div maxBudget)
             * budgetMultiplier) \div 10
    IN  shoppingProbability + satisfactionFactor + budgetFactor

\* a variant without the ceiling
triggerThreshold_unclamped(p) == totalProbability(p)

\* the bound Math.random() is compared with
triggerThreshold(p) == Min(probabilityCeiling, totalProbability(p))

\* a trigger that stops at maxVisitsPerDay visits
shouldGoShopping_capped(p, r) ==
    IF p.aiType = "undefined" \/ Falsy(p.shoppingBudget)
          \/ OrElse(p.shopVisitsToday, 0) >= maxVisitsPerDay
    THEN FALSE
    ELSE r < triggerThreshold(p)

\* a trigger that does not look at the budget
shouldGoShopping_anyBudget(p, r) ==
    IF p.aiType = "undefined"
    THEN FALSE
    ELSE r < triggerThreshold(p)

\* shouldGoShopping(pedestrian); r is its Math.random()
shouldGoShopping(p, r) ==
    IF p.aiType = "undefined" \/ Falsy(p.shoppingBudget)
    THEN FALSE
    ELSE r < triggerThreshold(p)

\* startShoppingActivity(pedestrian, grid); u is its Math.random()
startShoppingActivity(p, g, u) ==
    LET shopCoords == findNearestShop(p, g)
    IN  [p EXCEPT !.isShopping = TRUE,
                  !.shoppingActivity = "browsing",
                  !.shoppingProgress = 0,
                  !.shoppingDuration = RandomBetween(u, minDuration, maxDuration),
                  !.itemsBought = 0,
                  !.currentShopX = IF shopCoords.found THEN shopCoords.x ELSE @,
                  !.currentShopY = IF shopCoords.found THEN shopCoords.y ELSE @]

\* a variant that forgets the + 1
itemsDrawn_zeroBased(u) == (u * itemChoices) \div RandOne

\* items of completeShoppingActivity, for a draw u of Math.random()
itemsDrawn(u) == (u * itemChoices) \div RandOne + 1

\* a variant that spends the nominal amount whatever the budget
actualSpending_uncapped(spending, shoppingBudget) == spending

\* actualSpending of completeShoppingActivity
actualSpending(spending, shoppingBudget) ==
    Min(spending, OrElse(shoppingBudget, 0))

\* a variant without the clamp to 1
gainSatisfaction_unclamped(s) == OrElse(s, 0) + satisfactionGainPerPurchase

\* the satisfaction after a purchase
gainSatisfaction(s) == Min(One, OrElse(s, 0) + satisfactionGainPerPurchase)

\* a completion that credits the nominal price of the items
completeShoppingActivity_nominalCredit(p, u, now) ==
    IF ~p.isShopping THEN p
    ELSE
    LET items    == itemsDrawn(u)
        spending == items * averageItemPrice
        actual   == actualSpending(spending, p.shoppingBudget)
    IN  [p EXCEPT !.shoppingBudget = OrElse(@, 0) - actual,
                  !.itemsBought = items,
                  !.totalMoneySpent = OrElse(@, 0) + spending,
                  !.hasBag = TRUE,
                  !.satisfactionLevel = gainSatisfaction(@),
                  !.isShopping = FALSE,
                  !.shoppingProgress = 0,
                  !.shoppingActivity = "undefined",
                  !.lastShoppingTime = now,
                  !.shopVisitsToday = OrElse(@, 0) + 1]

\* completeShoppingActivity(pedestrian); u is its Math.random(), now is
\* Date.now() / 1000
completeShoppingActivity(p, u, now) ==
    IF ~p.isShopping THEN p
    ELSE
    LET items    == itemsDrawn(u)
        spending == items * averageItemPrice
        actual   == actualSpending(spending, p.shoppingBudget)
    IN  [p EXCEPT !.shoppingBudget = OrElse(@, 0) - actual,
                  !.itemsBought = items,
                  !.totalMoneySpent = OrElse(@, 0) + actual,
                  !.hasBag = TRUE,
                  !.satisfactionLevel = gainSatisfaction(@),
                  !.isShopping = FALSE,
                  !.shoppingProgress = 0,
                  !.shoppingActivity = "undefined",
                  !.lastShoppingTime = now,
                  !.shopVisitsToday = OrElse(@, 0) + 1]

\* a progress that is assigned, not added to
advanceProgress_assigned(p, deltaTime) ==
    (deltaTime * One) \div OrElse(p.shoppingDuration, fallbackDuration)

\* a progress that advances at half the rate
advanceProgress_halfRate(p, deltaTime) ==
    p.shoppingProgress
    + (deltaTime * One) \div (2 * OrElse(p.shoppingDuration, fallbackDuration))

\* progress after  shoppingProgress += deltaTime / (shoppingDuration || 1)
advanceProgress(p, deltaTime) ==
    p.shoppingProgress
    + (deltaTime * One) \div OrElse(p.shoppingDuration, fallbackDuration)

\* a variant that never completes the episode
continueShopping_neverCompletes(p, deltaTime, d, now) ==
    [p EXCEPT !.shoppingProgress = advanceProgress(p, deltaTime), !.hasBag = TRUE]

\* a variant where the agent walks out at the end of the episode without
\* buying
continueShopping_walksOut(p, deltaTime, d, now) ==
    LET q == [p EXCEPT !.shoppingProgress = advanceProgress(p, deltaTime)]
    IN  IF q.shoppingProgress >= One
        THEN [q EXCEPT !.isShopping = FALSE, !.shoppingProgress = 0,
                       !.shoppingActivity = "undefined"]
        ELSE [q EXCEPT !.hasBag = TRUE]

\* the branch of updateAIPedestrianShopping taken while shopping
continueShopping(p, deltaTime, d, now) ==
    LET q == [p EXCEPT !.shoppingProgress = advanceProgress(p, deltaTime)]
    IN  IF q.shoppingProgress >= One
        THEN completeShoppingActivity(q, d.items, now)
        ELSE [q EXCEPT !.hasBag = TRUE]

\* an update whose beginning tick already spends its time in the shop
updateAIPedestrianShopping_beginAdvances(p, g, deltaTime, d, now) ==
    IF ~p.isAI THEN p
    ELSE
    LET q == [p EXCEPT !.satisfactionLevel = DecaySatisfaction(@, deltaTime)]
    IN  IF q.isShopping /\ q.shoppingProgress # undefined
        THEN continueShopping(q, deltaTime, d, now)
        ELSE IF shouldGoShopping(q, d.trigger)
             THEN continueShopping(startShoppingActivity(q, g, d.duration),
                                   deltaTime, d, now)
             ELSE q

\* updateAIPedestrianShopping(pedestrian, grid, deltaTime, gameTime); d holds
\* the Math.random() values the call may consume
updateAIPedestrianShopping(p, g, deltaTime, d, now) ==
    IF ~p.isAI THEN p
    ELSE
    LET q == [p EXCEPT !.satisfactionLevel = DecaySatisfaction(@, deltaTime)]
    IN  IF q.isShopping /\ q.shoppingProgress # undefined
        THEN continueShopping(q, deltaTime, d, now)
        ELSE IF shouldGoShopping(q, d.trigger)
             THEN startShoppingActivity(q, g, d.duration)
             ELSE q

----------------------------------------------------------------------------
(* aiPedestrianIntegration *)

MaxOf(S) == IF S = {} THEN 0
            ELSE LET m == CHOOSE v \in S : \A w \in S : w <= v IN m

\* an id taken from the length of the list
nextId_byLength(peds) == Len(peds) + 1

\* Math.max(0, ...pedestrians.map(p => p.id), 0) + 1
nextId(peds) == MaxOf({0} \cup {peds[i].id : i \in 1..Len(peds)}) + 1

\* the record spawnAIPedestrian builds, before the shopping system
\* initialises it (appearance and movement fields carry no behaviour of
\* this core and are left out)
newPedestrian(id, tileX, tileY, aiType) ==
    [id |-> id, tileX |-> tileX, tileY |-> tileY,
     state |-> "walking", hasBag |-> FALSE,
     isAI |-> TRUE, aiType |-> aiType,
     isShopping |-> FALSE, shoppingProgress |-> 0, shoppingDuration |-> 0,
     currentShopX |-> undefined, currentShopY |-> undefined,
     shoppingActivity |-> "undefined",
     shoppingBudget |-> 0, itemsBought |-> 0, shopVisitsToday |-> 0,
     lastShoppingTime |-> 0, satisfactionLevel |-> fallbackSatisfaction,
     totalMoneySpent |-> 0]

\* a variant that lets one pedestrian too many in
spawnRefused_offByOne(peds) == Len(peds) > maxAIPedestrians

\* the guard of spawnAIPedestrian: TRUE when it returns null
spawnRefused(peds) == Len(peds) >= maxAIPedestrians

\* spawnAIPedestrian(pedestrians, tileX, tileY, aiType): << >> is null,
\* <<p>> the new pedestrian; u is the Math.random() of the budget
spawnAIPedestrian(peds, tileX, tileY, aiType, u) ==
    IF spawnRefused(peds) THEN << >>
    ELSE <<initializeAIPedestrianShopping(
               newPedestrian(nextId(peds), tileX, tileY, aiType), aiType, u)>>

\* a batch tick that returns the autonomous agents only
updateAIPedestrians_agentsOnly(peds, g, deltaTime, d, now) ==
    LET agents == SelectSeq(peds, LAMBDA p : p.isAI)
    IN  [i \in 1..Len(agents) |->
            updateAIPedestrianShopping(agents[i], g, deltaTime, d[i], now)]

\* updateAIPedestrians(pedestrians, grid, deltaTime, gameTime); d[i] holds
\* the Math.random() values of the i-th pedestrian's update.  (The
\* presentation offsets it then stores are outside this core.)
updateAIPedestrians(peds, g, deltaTime, d, now) ==
    [i \in 1..Len(peds) |->
        IF ~peds[i].isAI THEN peds[i]
        ELSE updateAIPedestrianShopping(peds[i], g, deltaTime, d[i], now)]

\* a callback in which an agent does not begin to shop while another
\* pedestrian of the list is shopping
processOne_crowded(peds, g, i, deltaTime, d, now) ==
    IF ~peds[i].isAI THEN peds
    ELSE IF ~peds[i].isShopping /\ \E k \in 1..Len(peds) : peds[k].isShopping
    THEN [peds EXCEPT ![i].satisfactionLevel = DecaySatisfaction(@, deltaTime)]
    ELSE [peds EXCEPT ![i] = updateAIPedestrianShopping(peds[i], g, deltaTime, d, now)]

\* the callback of the map of updateAIPedestrians applied to the i-th
\* pedestrian: updateAIPedestrianShopping changes the record in place, so
\* the list the later callbacks see holds the updated record
processOne(peds, g, i, deltaTime, d, now) ==
    IF ~peds[i].isAI THEN peds
    ELSE [peds EXCEPT ![i] = updateAIPedestrianShopping(peds[i], g, deltaTime, d, now)]

\* the callbacks applied to the pedestrians in the given order of indices,
\* the i-th pedestrian consuming the draws d[i]
RECURSIVE processInOrder(_, _, _, _, _, _)
processInOrder(peds, g, order, deltaTime, d, now) ==
    IF order = << >> THEN peds
    ELSE processInOrder(processOne(peds, g, Head(order), deltaTime, d[Head(order)], now),
                        g, Tail(order), deltaTime, d, now)

clearAIPedestrians_keepShopping(peds) ==
    SelectSeq(peds, LAMBDA p : ~p.isAI \/ p.isShopping)

\* clearAIPedestrians(pedestrians)
clearAIPedestrians(peds) == SelectSeq(peds, LAMBDA p : ~p.isAI)

\* statistics over the whole list
aiPedestriansOf_everyone(peds) == peds

\* pedestrians.filter(p => p.isAI)
aiPedestriansOf(peds) == SelectSeq(peds, LAMBDA p : p.isAI)

\* reduce((sum, p) => sum + term(p), 0), for the sequence of the terms from
\* the k-th on
RECURSIVE reduceSum(_, _)
reduceSum(terms, k) ==
    IF k > Len(terms) THEN 0 ELSE terms[k] + reduceSum(terms, k + 1)

\* calculateAIPedestrianStats(pedestrians); averageSatisfaction, a quotient
\* of a sum in thousandths by a count, is kept as that fraction
calculateAIPedestrianStats(peds) ==
    LET aiPedestrians == aiPedestriansOf(peds)
    IN  IF Len(aiPedestrians) = 0
        THEN [totalCount |-> 0, shoppingCount |-> 0, walkingCount |-> 0,
              idleCount |-> 0, averageSatisfaction |-> [sum |-> 0, count |-> 1],
              totalMoneySpent |-> 0]
        ELSE [totalCount    |-> Len(aiPedestrians),
              shoppingCount |-> Len(SelectSeq(aiPedestrians, LAMBDA p : p.isShopping)),
              walkingCount  |-> Len(SelectSeq(aiPedestrians, LAMBDA p : p.state = "walking")),
              idleCount     |-> Len(SelectSeq(aiPedestrians, LAMBDA p : p.state = "idle")),
              averageSatisfaction |->
                  [sum   |-> reduceSum([k \in 1..Len(aiPedestrians) |->
                                           OrElse(aiPedestrians[k].satisfactionLevel,
                                                  fallbackSatisfaction)], 1),
                   count |-> Len(aiPedestrians)],
              totalMoneySpent |->
                  reduceSum([k \in 1..Len(aiPedestrians) |->
                                OrElse(aiPedestrians[k].totalMoneySpent, 0)], 1)]

----------------------------------------------------------------------------
(* pedestrianUtils *)

\* the number of pedestrians from the k-th on that are in the given state
RECURSIVE countState(_, _, _)
countState(peds, state, k) ==
    IF k > Len(peds) THEN 0
    ELSE (IF peds[k].state = state THEN 1 ELSE 0) + countState(peds, state, k + 1)

\* getPedestrianStats(pedestrians); averageSatisfaction is kept as the
\* fraction totalSatisfaction / aiCount; the pedestrians of the model carry
\* no age and no activity, so averageAge and byActivity are left out
getPedestrianStats(peds) ==
    LET aiCount == Len(SelectSeq(peds, LAMBDA p : p.isAI))
        totalSatisfaction ==
            reduceSum([k \in 1..Len(peds) |->
                          IF peds[k].isAI THEN OrElse(peds[k].satisfactionLevel, 0)
                          ELSE 0], 1)
    IN  [total      |-> Len(peds),
         aiCount    |-> aiCount,
         byState    |-> [state \in {peds[k].state : k \in 1..Len(peds)} |->
                            countState(peds, state, 1)],
         byShopping |-> Len(SelectSeq(peds, LAMBDA p : p.isShopping)),
         averageSatisfaction |->
             IF aiCount > 0 THEN [sum |-> totalSatisfaction, count |-> aiCount]
             ELSE [sum |-> 0, count |-> 1]]

----------------------------------------------------------------------------
(* aiPedestrianIntegration, continued *)

\* Math.hypot(p.tileX - x, p.tileY - y) < 5 of initializeAIPedestrians; the
\* model's grids are small and the same test runs with a spacing of 2
spawnSpacing == 2

tooClose(peds, x, y) ==
    \E i \in 1..Len(peds) :
        (peds[i].tileX - x) * (peds[i].tileX - x)
        + (peds[i].tileY - y) * (peds[i].tileY - y) < spawnSpacing * spawnSpacing

\* the two nested loops of initializeAIPedestrians that collect
\* spawnPositions, x outer and y inner, both stopping at initialCount
RECURSIVE ScanPositions(_, _, _, _, _)
ScanPositions(peds, g, x, y, acc) ==
    IF ~(x < GridLength(g) /\ Len(acc) < initialAIPedestrians) THEN acc
    ELSE IF ~(y < GridLength(g[0]) /\ Len(acc) < initialAIPedestrians)
         THEN ScanPositions(peds, g, x + 1, 0, acc)
    ELSE LET tile == g[x][y]
         IN  IF /\ tile.zone = "none"
                /\ tile.building = "undefined"
                /\ ~tooClose(peds, x, y)
             THEN ScanPositions(peds, g, x, y + 1, Append(acc, [x |-> x, y |-> y]))
             ELSE ScanPositions(peds, g, x, y + 1, acc)

aiTypes == <<"worker", "shopper", "tourist", "commuter", "leisurer">>
\* aiTypeWeights [0.15, 0.35, 0.15, 0.2, 0.15], in ten-thousandths
aiTypeWeights == <<1500, 3500, 1500, 2000, 1500>>

\* the weighted choice of initializeAIPedestrians, for a draw rand
RECURSIVE selectType(_, _, _)
selectType(rand, i, cumulativeWeight) ==
    IF i > Len(aiTypes) THEN "shopper"
    ELSE IF rand <= cumulativeWeight + aiTypeWeights[i] THEN aiTypes[i]
    ELSE selectType(rand, i + 1, cumulativeWeight + aiTypeWeights[i])

\* spawnPositions.forEach of initializeAIPedestrians: spawn at each position
\* against the list as it grows, push what is not null
RECURSIVE spawnEach(_, _, _, _)
spawnEach(peds, positions, k, d) ==
    IF k > Len(positions) THEN peds
    ELSE LET pos == positions[k]
             new == spawnAIPedestrian(peds, pos.x, pos.y,
                                      selectType(d[k].type, 1, 0), d[k].budget)
         IN  spawnEach(IF new # << >> THEN Append(peds, new[1]) ELSE peds,
                       positions, k + 1, d)

\* initializeAIPedestrians(pedestrians, grid); d[k] holds the Math.random()
\* values of the k-th spawn position
initializeAIPedestrians(peds, g, d) ==
    spawnEach(peds, ScanPositions(peds, g, 0, 0, << >>), 1, d)

----------------------------------------------------------------------------
(* gridFinders: here the grid is indexed grid[y][x] and is gridSize tiles
   wide and high *)

\* whether the grid has a tile at grid[y][x]; reading .building of a tile
\* the grid does not have raises a TypeError
hasTile(g, y, x) == y \in DOMAIN g /\ x \in DOMAIN g[y]

\* the tiles the two nested loops of a finder read, y outer and x inner:
\* the k-th of them
scanX(gridSize, k) == (k - 1) % gridSize
scanY(gridSize, k) == (k - 1) \div gridSize

\* whether the nested loops over 0..gridSize-1 meet a tile the grid does
\* not have
scanRaises(g, gridSize) ==
    \E k \in 1..(gridSize * gridSize) :
        ~hasTile(g, scanY(gridSize, k), scanX(gridSize, k))

\* the outcome of a call: it raised, or it returned value (an absent
\* result, null, is the empty list)
Raised == [raised |-> TRUE, value |-> << >>]
Returned(value) == [raised |-> FALSE, value |-> value]

RESIDENTIAL_BUILDING_TYPES ==
    {"house_small", "house_medium", "mansion", "apartment_low", "apartment_high"}

\* the entries the loops of findResidentialBuildings push from the k-th
\* tile on
RECURSIVE residentialsFrom(_, _, _)
residentialsFrom(g, gridSize, k) ==
    IF k > gridSize * gridSize THEN << >>
    ELSE LET x == scanX(gridSize, k)
             y == scanY(gridSize, k)
         IN  (IF g[y][x].building \in RESIDENTIAL_BUILDING_TYPES
              THEN <<[x |-> x, y |-> y]>> ELSE << >>)
             \o residentialsFrom(g, gridSize, k + 1)

\* findResidentialBuildings(grid, gridSize); the grid is an array, so !grid
\* is false
findResidentialBuildings(g, gridSize) ==
    IF gridSize <= 0 THEN Returned(<< >>)
    ELSE IF scanRaises(g, gridSize) THEN Raised
    ELSE Returned(residentialsFrom(g, gridSize, 1))

\* let cachedFireworkTypesArray = null, cachedFireworkTypesSet = null, and
\* no array of building types allocated
NoHeap ==
    [arrays |-> << >>, cachedFireworkTypesArray |-> "null",
     cachedFireworkTypesSet |-> {}]

\* the cache after a call of findFireworkBuildings with the array ref: the
\* Set is rebuilt only if the reference differs from the cached one
cachedAfter(h, ref) ==
    IF h.cachedFireworkTypesArray # ref
    THEN [h EXCEPT !.cachedFireworkTypesArray = ref,
                   !.cachedFireworkTypesSet = h.arrays[ref]]
    ELSE h

\* the entries the loops of findFireworkBuildings push from the k-th tile on
RECURSIVE fireworksFrom(_, _, _, _)
fireworksFrom(g, gridSize, typesSet, k) ==
    IF k > gridSize * gridSize THEN << >>
    ELSE LET x == scanX(gridSize, k)
             y == scanY(gridSize, k)
             buildingType == g[y][x].building
         IN  (IF buildingType \in typesSet
              THEN <<[x |-> x, y |-> y, type |-> buildingType]>> ELSE << >>)
             \o fireworksFrom(g, gridSize, typesSet, k + 1)

\* the list findFireworkBuildings(grid, gridSize, fireworkBuildingTypes)
\* returns, the argument being the array ref of the heap h
findFireworkBuildings(g, gridSize, h, ref) ==
    IF gridSize <= 0 THEN Returned(<< >>)
    ELSE IF scanRaises(g, gridSize) THEN Raised
    ELSE Returned(fireworksFrom(g, gridSize,
                                cachedAfter(h, ref).cachedFireworkTypesSet, 1))

SCHOOL_TYPES == {"school", "university"}

COMMERCIAL_TYPES == {"shop_small", "shop_medium", "office_low", "office_high", "mall"}

INDUSTRIAL_TYPES == {"factory_small", "factory_medium", "factory_large", "warehouse"}

PARK_TYPES ==
    {"park", "park_large", "tennis", "basketball_courts", "playground_small",
     "playground_large", "baseball_field_small", "soccer_field_small",
     "football_field", "baseball_stadium", "community_center", "swimming_pool",
     "skate_park", "mini_golf_course", "bleachers_field", "go_kart_track",
     "amphitheater", "greenhouse_garden", "animal_pens_farm", "cabin_house",
     "campground", "marina_docks_small", "pier_large", "roller_coaster_small",
     "community_garden", "pond_park", "park_gate", "mountain_lodge",
     "mountain_trailhead"}

\* the entries the loops of findPedestrianDestinations push from the k-th
\* tile on
RECURSIVE destinationsFrom(_, _, _)
destinationsFrom(g, gridSize, k) ==
    IF k > gridSize * gridSize THEN << >>
    ELSE LET x == scanX(gridSize, k)
             y == scanY(gridSize, k)
             buildingType == g[y][x].building
         IN  (IF buildingType \in SCHOOL_TYPES
              THEN <<[x |-> x, y |-> y, type |-> "school"]>>
              ELSE IF buildingType \in COMMERCIAL_TYPES
              THEN <<[x |-> x, y |-> y, type |-> "commercial"]>>
              ELSE IF buildingType \in INDUSTRIAL_TYPES
              THEN <<[x |-> x, y |-> y, type |-> "industrial"]>>
              ELSE IF buildingType \in PARK_TYPES
              THEN <<[x |-> x, y |-> y, type |-> "park"]>>
              ELSE << >>)
             \o destinationsFrom(g, gridSize, k + 1)

\* findPedestrianDestinations(grid, gridSize)
findPedestrianDestinations(g, gridSize) ==
    IF gridSize <= 0 THEN Returned(<< >>)
    ELSE IF scanRaises(g, gridSize) THEN Raised
    ELSE Returned(destinationsFrom(g, gridSize, 1))

\* a siting test that accepts the lower half of the seeds
acceptsMall_lowSeeds(x, y) == (x * 31 + y * 17) % 100 < 50

\* seed >= 50 for seed = (x * 31 + y * 17) % 100
acceptsMall(x, y) == (x * 31 + y * 17) % 100 >= 50

\* what findHeliports pushes for the tile at (x, y)
heliportAt(g, x, y) ==
    LET buildingType == g[y][x].building
    IN  IF buildingType = "hospital"
        THEN <<[x |-> x, y |-> y, type |-> "hospital", size |-> 2]>>
        ELSE IF buildingType = "airport"
        THEN <<[x |-> x, y |-> y, type |-> "airport", size |-> 4]>>
        ELSE IF buildingType = "police_station"
        THEN <<[x |-> x, y |-> y, type |-> "police", size |-> 1]>>
        ELSE IF buildingType = "mall" /\ acceptsMall(x, y)
        THEN <<[x |-> x, y |-> y, type |-> "mall", size |-> 3]>>
        ELSE << >>

RECURSIVE heliportsFrom(_, _, _)
heliportsFrom(g, gridSize, k) ==
    IF k > gridSize * gridSize THEN << >>
    ELSE heliportAt(g, scanX(gridSize, k), scanY(gridSize, k))
         \o heliportsFrom(g, gridSize, k + 1)

\* findHeliports(grid, gridSize)
findHeliports(g, gridSize) ==
    IF gridSize <= 0 THEN Returned(<< >>)
    ELSE IF scanRaises(g, gridSize) THEN Raised
    ELSE Returned(heliportsFrom(g, gridSize, 1))

RECURSIVE docksFrom(_, _, _)
docksFrom(g, gridSize, k) ==
    IF k > gridSize * gridSize THEN << >>
    ELSE LET x == scanX(gridSize, k)
             y == scanY(gridSize, k)
             buildingType == g[y][x].building
         IN  (IF buildingType = "marina_docks_small"
              THEN <<[x |-> x, y |-> y, type |-> "marina"]>>
              ELSE IF buildingType = "pier_large"
              THEN <<[x |-> x, y |-> y, type |-> "pier"]>>
              ELSE << >>)
             \o docksFrom(g, gridSize, k + 1)

\* findMarinasAndPiers(grid, gridSize)
findMarinasAndPiers(g, gridSize) ==
    IF gridSize <= 0 THEN Returned(<< >>)
    ELSE IF scanRaises(g, gridSize) THEN Raised
    ELSE Returned(docksFrom(g, gridSize, 1))

\* the 8 directions of findAdjacentWaterTile
adjacentDirections ==
    <<<<0 - 1, 0>>, <<1, 0>>, <<0, 0 - 1>>, <<0, 1>>,
      <<0 - 1, 0 - 1>>, <<0 - 1, 1>>, <<1, 0 - 1>>, <<1, 1>>>>

\* the for loop of findAdjacentWaterTile from the k-th direction on
RECURSIVE adjacentWaterFrom(_, _, _, _, _)
adjacentWaterFrom(g, gridSize, dockX, dockY, k) ==
    IF k > Len(adjacentDirections) THEN Returned(<< >>)
    ELSE LET nx == dockX + adjacentDirections[k][1]
             ny == dockY + adjacentDirections[k][2]
         IN  IF nx >= 0 /\ nx < gridSize /\ ny >= 0 /\ ny < gridSize
             THEN IF ~hasTile(g, ny, nx) THEN Raised
                  ELSE IF g[ny][nx].building = "water"
                  THEN Returned(<<[x |-> nx, y |-> ny]>>)
                  ELSE adjacentWaterFrom(g, gridSize, dockX, dockY, k + 1)
             ELSE adjacentWaterFrom(g, gridSize, dockX, dockY, k + 1)

\* findAdjacentWaterTile(grid, gridSize, dockX, dockY)
findAdjacentWaterTile(g, gridSize, dockX, dockY) ==
    IF gridSize <= 0 THEN Returned(<< >>)
    ELSE adjacentWaterFrom(g, gridSize, dockX, dockY, 1)

\* the default of the maxTiles parameter
defaultMaxTiles == 200

\* a search that looks left and right only
directions_leftRight == <<<<0 - 1, 0>>, <<1, 0>>>>

directions == <<<<0 - 1, 0>>, <<1, 0>>, <<0, 0 - 1>>, <<0, 1>>>>

outOfBounds(gridSize, x, y) == x < 0 \/ x >= gridSize \/ y < 0 \/ y >= gridSize

\* a loop condition that stops one tile late
collecting_oneMore(waterTiles, maxTiles) == Len(waterTiles) <= maxTiles

\* the second half of the while condition
collecting(waterTiles, maxTiles) == Len(waterTiles) < maxTiles

\* the unvisited neighbours of (x, y), in the order of directions, as the
\* for loop pushes them
RECURSIVE pushNeighbours(_, _, _, _, _)
pushNeighbours(queue, visited, x, y, k) ==
    IF k > Len(directions) THEN queue
    ELSE LET nx == x + directions[k][1]
             ny == y + directions[k][2]
         IN  pushNeighbours(IF <<nx, ny>> \notin visited
                            THEN Append(queue, [x |-> nx, y |-> ny])
                            ELSE queue,
                            visited, x, y, k + 1)

\* one turn of the while loop of findConnectedWaterTiles, on the locals
\* st = (queue, visited, waterTiles); visited holds the keys "x,y" as pairs;
\* raised records that the turn read a tile the grid does not have, which
\* ends the call; once the loop has ended a turn changes nothing
floodTurn(g, gridSize, maxTiles, st) ==
    IF ~(Len(st.queue) > 0 /\ collecting(st.waterTiles, maxTiles)) THEN st
    ELSE LET x    == Head(st.queue).x
             y    == Head(st.queue).y
             rest == Tail(st.queue)
             seen == st.visited \cup {<<x, y>>}
         IN  IF <<x, y>> \in st.visited
             THEN [st EXCEPT !.queue = rest]
             ELSE IF outOfBounds(gridSize, x, y)
             THEN [st EXCEPT !.queue = rest, !.visited = seen]
             ELSE IF ~hasTile(g, y, x)
             THEN [st EXCEPT !.queue = << >>, !.visited = seen, !.raised = TRUE]
             ELSE IF g[y][x].building # "water"
             THEN [st EXCEPT !.queue = rest, !.visited = seen]
             ELSE [queue      |-> pushNeighbours(rest, seen, x, y, 1),
                   visited    |-> seen,
                   waterTiles |-> Append(st.waterTiles, [x |-> x, y |-> y]),
                   raised     |-> FALSE]

\* n turns of the while loop, the first half of them and then the rest
RECURSIVE floodTurns(_, _, _, _, _)
floodTurns(g, gridSize, maxTiles, st, n) ==
    IF n = 0 THEN st
    ELSE IF n = 1 THEN floodTurn(g, gridSize, maxTiles, st)
    ELSE LET half == floodTurns(g, gridSize, maxTiles, st, n \div 2)
         IN  IF Len(half.queue) = 0 THEN half
             ELSE floodTurns(g, gridSize, maxTiles, half, n - n \div 2)

\* findConnectedWaterTiles(grid, gridSize, startTileX, startTileY, maxTiles);
\* every turn of the loop takes one entry off the queue, which receives the
\* start and at most four entries for each tile of the grid, so the loop has
\* ended after 1 + 4 * gridSize * gridSize turns
floodLoop(g, gridSize, startTileX, startTileY, maxTiles) ==
    floodTurns(g, gridSize, maxTiles,
               [queue      |-> <<[x |-> startTileX, y |-> startTileY]>>,
                visited    |-> {},
                waterTiles |-> << >>,
                raised     |-> FALSE],
               1 + 4 * gridSize * gridSize)

\* the list findConnectedWaterTiles returns when it does not raise
findConnectedWaterTiles(g, gridSize, startTileX, startTileY, maxTiles) ==
    IF gridSize <= 0 THEN << >>
    ELSE floodLoop(g, gridSize, startTileX, startTileY, maxTiles).waterTiles

\* whether the call raises
floodRaises(g, gridSize, startTileX, startTileY, maxTiles) ==
    gridSize > 0 /\ floodLoop(g, gridSize, startTileX, startTileY, maxTiles).raised

\* the outcome of the call
floodOutcome(g, gridSize, startTileX, startTileY, maxTiles) ==
    IF floodRaises(g, gridSize, startTileX, startTileY, maxTiles) THEN Raised
    ELSE Returned(findConnectedWaterTiles(g, gridSize, startTileX, startTileY, maxTiles))

\* generateTourWaypoints up to its first return: the flood fill may raise,
\* and a region of fewer than 3 tiles gives no tour; ended is FALSE where
\* the call goes on to choose waypoints
tourOutcome(g, gridSize, startTileX, startTileY) ==
    LET waterTiles == floodOutcome(g, gridSize, startTileX, startTileY, defaultMaxTiles)
    IN  IF waterTiles.raised THEN [ended |-> TRUE, outcome |-> Raised]
        ELSE IF Len(waterTiles.value) < 3
        THEN [ended |-> TRUE, outcome |-> Returned(<< >>)]
        ELSE [ended |-> FALSE, outcome |-> Returned(<< >>)]

\* a target count without its lower end
numWaypointsOf_unfloored(length) == Min(6, length \div 10)

\* Math.min(6, Math.max(2, Math.floor(waterTiles.length / 10)))
numWaypointsOf(length) == Min(6, Max(2, length \div 10))

\* a spacing test with a radius of 2
tooCloseToWaypoints_two(tile, waypoints) ==
    \E k \in 1..Len(waypoints) :
        (tile.x - waypoints[k].tileX) * (tile.x - waypoints[k].tileX)
        + (tile.y - waypoints[k].tileY) * (tile.y - waypoints[k].tileY) < 2 * 2

\* tooClose: Math.hypot(tile.x - wp.tileX, tile.y - wp.tileY) < 3 for some
\* waypoint, compared in squares
tooCloseToWaypoints(tile, waypoints) ==
    \E k \in 1..Len(waypoints) :
        (tile.x - waypoints[k].tileX) * (tile.x - waypoints[k].tileX)
        + (tile.y - waypoints[k].tileY) * (tile.y - waypoints[k].tileY) < 3 * 3

\* a waypoint on a tile; its screenX and screenY are the projection of the
\* tile and carry nothing more
waypointOn(tile) == [tileX |-> tile.x, tileY |-> tile.y]

\* the for loop over the first numWaypoints tiles of tilesWithDist; ranked
\* holds their indices in waterTiles (from 0), tour is the pair
\* (waypoints, usedIndices)
RECURSIVE spacedPass(_, _, _, _, _)
spacedPass(waterTiles, ranked, numWaypoints, i, tour) ==
    IF ~(i < numWaypoints /\ i < Len(ranked)) THEN tour
    ELSE LET idx  == ranked[i + 1]
             tile == waterTiles[idx + 1]
         IN  spacedPass(waterTiles, ranked, numWaypoints, i + 1,
                        IF ~tooCloseToWaypoints(tile, tour.waypoints)
                        THEN [waypoints   |-> Append(tour.waypoints, waypointOn(tile)),
                              usedIndices |-> tour.usedIndices \cup {idx}]
                        ELSE tour)

\* the condition of the while loop that adds random waypoints
filling(waypoints, numWaypoints, waterTiles) ==
    Len(waypoints) < numWaypoints /\ Len(waypoints) < Len(waterTiles)

\* a turn that does not look at usedIndices
fillStep_unchecked(waterTiles, tour, u) ==
    LET randomIdx == (u * Len(waterTiles)) \div RandOne
    IN  [waypoints   |-> Append(tour.waypoints, waypointOn(waterTiles[randomIdx + 1])),
         usedIndices |-> tour.usedIndices \cup {randomIdx}]

\* one turn of the while loop, for a draw u of Math.random()
fillStep(waterTiles, tour, u) ==
    LET randomIdx == (u * Len(waterTiles)) \div RandOne
    IN  IF randomIdx \notin tour.usedIndices
        THEN [waypoints   |-> Append(tour.waypoints,
                                     waypointOn(waterTiles[randomIdx + 1])),
              usedIndices |-> tour.usedIndices \cup {randomIdx}]
        ELSE tour

\* the indices that come first when the comparator's random term is 0
\* throughout (Math.random() = 0.5): the sort is stable, so the tiles come by
\* falling distance from the centre and, at equal distance, in the order of
\* waterTiles; dist[i + 1] is distFromCenter of index i
RECURSIVE sortedFrom(_, _, _)
sortedFrom(dist, chosen, count) ==
    IF count = 0 \/ Len(chosen) = Len(dist) THEN chosen
    ELSE LET rest == {i \in 0..(Len(dist) - 1) :
                         \A k \in 1..Len(chosen) : chosen[k] # i}
             next == CHOOSE i \in rest :
                         \A j \in rest :
                             \/ dist[i + 1] > dist[j + 1]
                             \/ dist[i + 1] = dist[j + 1] /\ i <= j
         IN  sortedFrom(dist, Append(chosen, next), count - 1)

\* the first count indices of tilesWithDist after a sort without noise
sortedRanking(waterTiles, count) ==
    LET length == Len(waterTiles)
        sumX   == reduceSum([k \in 1..length |-> waterTiles[k].x], 1)
        sumY   == reduceSum([k \in 1..length |-> waterTiles[k].y], 1)
        dist   == [k \in 1..length |->
                      (waterTiles[k].x * length - sumX) * (waterTiles[k].x * length - sumX)
                      + (waterTiles[k].y * length - sumY) * (waterTiles[k].y * length - sumY)]
    IN  sortedFrom(dist, << >>, count)

----------------------------------------------------------------------------
(* Bounds and input sets *)

\* the grid is GridW x GridH: grid.length = GridW, grid[0].length = GridH
GridW == 3
GridH == 2
\* the driver's clock stops the population runs / the single-agent runs here
MaxGameTime == 101
MaxAgentTime == 505
\* the game's own pedestrian system adds ordinary pedestrians up to this
\* list length
MaxPedestrians == 3

Coords == (0..(GridW - 1)) \X (0..(GridH - 1))

\* a grid whose tiles in shops hold a small shop in a commercial zone and
\* whose other tiles are empty and unzoned
MakeGrid(shops) ==
    [x \in 0..(GridW - 1) |->
        [y \in 0..(GridH - 1) |->
            IF <<x, y>> \in shops
            THEN [building |-> "shop_small", zone |-> "commercial"]
            ELSE [building |-> "undefined", zone |-> "none"]]]

InitialGrids == {MakeGrid({}), MakeGrid({<<1, 0>>})}

\* Math.random() values (ten-thousandths) the runs draw
BudgetDraws  == {0, 200, 9980}          \* budgets 500, 530, 1997
DurationDraws == {0, 5000}              \* durations 10 s, 20 s
ItemDraws    == {0, 9999}               \* 1, 5 items
TriggerDraws == {0, 4000, 5000}
TypeDraws    == {9000}                  \* leisurer
\* deltaTime values (tenths of a second): 0, 8 s, 10.1 s, 50 s
DeltaTimes   == {0, 80, 101, 500}

AgentDraws == [trigger : TriggerDraws, duration : DurationDraws, items : ItemDraws]
PopDraws   == [trigger : {0, 9999}, duration : {0}, items : {0, 9999}]
PopDeltaTimes == {0, 101}

----------------------------------------------------------------------------
(* The state machine *)

Call(op, deltaTime, rand) == [op |-> op, deltaTime |-> deltaTime, rand |-> rand]

\* whether updateAIPedestrianShopping reaches shouldGoShopping for p
evaluatesTrigger(p) == p.isAI /\ ~(p.isShopping /\ p.shoppingProgress # undefined)

\* the draws of one update, up to the values the update does not consume:
\* a shopping agent consumes at most items, any other at most trigger and
\* duration, an ordinary pedestrian none
usedDraws(p, draws) ==
    LET fixed == CHOOSE d \in draws : TRUE
    IN  IF ~p.isAI THEN {fixed}
        ELSE IF evaluatesTrigger(p)
        THEN {d \in draws : d.items = fixed.items}
        ELSE {d \in draws : d.trigger = fixed.trigger /\ d.duration = fixed.duration}

Init ==
    /\ pedestrians = << >>
    /\ grid \in InitialGrids
    /\ gameTime = 0
    /\ pc = "loop"
    /\ spawned = << >>
    /\ lastOp = Call("init", 0, << >>)
    /\ heap = NoHeap

\* the tiles the runs spawn and add pedestrians on: two opposite corners
SpawnTiles == {<<0, 0>>, <<GridW - 1, GridH - 1>>}

\* the driver calls spawnAIPedestrian at a tile of the grid
Spawn(types, draws) ==
    /\ pc = "loop"
    /\ \E c \in SpawnTiles, t \in types, u \in draws :
          spawned' = spawnAIPedestrian(pedestrians, c[1], c[2], t, u)
    /\ pc' = "spawned"
    /\ lastOp' = Call("spawn", 0, << >>)
    /\ UNCHANGED <<pedestrians, grid, gameTime, heap>>

\* if (newPed) pedestrians.push(newPed)
PushSpawned ==
    /\ pc = "spawned"
    /\ pedestrians' = IF spawned # << >> THEN Append(pedestrians, spawned[1])
                      ELSE pedestrians
    /\ pc' = "loop"
    /\ spawned' = << >>
    /\ lastOp' = Call("push", 0, << >>)
    /\ UNCHANGED <<grid, gameTime, heap>>

\* pedestrians = initializeAIPedestrians(pedestrians, grid)
InitializePopulation(typeDraws, budgetDraws) ==
    /\ pc = "loop"
    /\ \E d \in [1..initialAIPedestrians -> [type : typeDraws, budget : budgetDraws]] :
          pedestrians' = initializeAIPedestrians(pedestrians, grid, d)
    /\ lastOp' = Call("initialize", 0, << >>)
    /\ UNCHANGED <<grid, gameTime, pc, spawned, heap>>

\* pedestrians = updateAIPedestrians(pedestrians, grid, deltaTime, gameTime)
Tick(deltaTimes, draws, maxTime) ==
    /\ pc = "loop"
    /\ \E deltaTime \in deltaTimes :
          /\ gameTime + deltaTime <= maxTime
          /\ gameTime' = gameTime + deltaTime
          /\ \E d \in [1..Len(pedestrians) -> draws] :
                /\ \A i \in 1..Len(pedestrians) : d[i] \in usedDraws(pedestrians[i], draws)
                /\ pedestrians' = updateAIPedestrians(pedestrians, grid, deltaTime,
                                                      d, gameTime + deltaTime)
                /\ lastOp' = Call("tick", deltaTime,
                                  [i \in 1..Len(pedestrians) |->
                                      IF evaluatesTrigger(pedestrians[i])
                                      THEN d[i].trigger ELSE undefined])
    /\ UNCHANGED <<grid, pc, spawned, heap>>

\* pedestrians = clearAIPedestrians(pedestrians)
ClearAll ==
    /\ pc = "loop"
    /\ pedestrians' = clearAIPedestrians(pedestrians)
    /\ lastOp' = Call("clear", 0, << >>)
    /\ UNCHANGED <<grid, gameTime, pc, spawned, heap>>

\* an ordinary (not autonomous) pedestrian of the game
ordinaryPedestrian(id, tileX, tileY) ==
    [newPedestrian(id, tileX, tileY, "undefined") EXCEPT
        !.isAI = FALSE, !.satisfactionLevel = undefined,
        !.shoppingBudget = undefined, !.totalMoneySpent = undefined]

\* the game's own pedestrian system adds an ordinary pedestrian
AddPedestrian ==
    /\ pc = "loop"
    /\ Len(pedestrians) < MaxPedestrians
    /\ \E c \in SpawnTiles :
          pedestrians' = Append(pedestrians,
                                ordinaryPedestrian(nextId(pedestrians), c[1], c[2]))
    /\ lastOp' = Call("add", 0, << >>)
    /\ UNCHANGED <<grid, gameTime, pc, spawned, heap>>

Next ==
    \/ Spawn({"shopper"}, {0})
    \/ PushSpawned
    \/ InitializePopulation(TypeDraws, {0})
    \/ Tick(PopDeltaTimes, PopDraws, MaxGameTime)
    \/ ClearAll
    \/ AddPedestrian

\* the whole system: population management and batch ticks
Spec == Init /\ [][Next]_vars

\* one autonomous agent, just spawned on some tile of some grid
InitAgent ==
    /\ grid \in InitialGrids
    /\ \E c \in {<<0, 0>>}, t \in AIPedestrianType, u \in BudgetDraws :
          pedestrians = spawnAIPedestrian(<< >>, c[1], c[2], t, u)
    /\ gameTime = 0
    /\ pc = "loop"
    /\ spawned = << >>
    /\ lastOp = Call("push", 0, << >>)
    /\ heap = NoHeap

NextAgent == Tick(DeltaTimes, AgentDraws, MaxAgentTime)

\* the life of one agent under ticks, with the fine-grained inputs
SpecAgent == InitAgent /\ [][NextAgent]_vars

AllTypeDraws == {1000, 3000, 6000, 8000, 9000}

NextPopulation ==
    \/ Spawn(AIPedestrianType, BudgetDraws)
    \/ PushSpawned
    \/ InitializePopulation(AllTypeDraws, BudgetDraws)
    \/ ClearAll
    \/ AddPedestrian

\* population management alone, with every archetype and budget draw
SpecPopulation == Init /\ [][NextPopulation]_vars

\* the building subsystem, between two ticks, builds a shop on a tile or
\* clears the tile
GridChange ==
    /\ pc = "loop"
    /\ \E c \in Coords, shop \in BOOLEAN :
          LET tile == IF shop
                      THEN [building |-> "shop_small", zone |-> "commercial"]
                      ELSE [building |-> "undefined", zone |-> "none"]
          IN  /\ grid[c[1]][c[2]] # tile
              /\ grid' = [grid EXCEPT ![c[1]][c[2]] = tile]
    /\ lastOp' = Call("build", 0, << >>)
    /\ UNCHANGED <<pedestrians, gameTime, pc, spawned, heap>>

\* one shopper, just spawned on tile (0, 0) with the smallest budget
InitTarget ==
    /\ grid \in InitialGrids
    /\ pedestrians = spawnAIPedestrian(<< >>, 0, 0, "shopper", 0)
    /\ gameTime = 0
    /\ pc = "loop"
    /\ spawned = << >>
    /\ lastOp = Call("push", 0, << >>)
    /\ heap = NoHeap

NextTarget ==
    \/ Tick(PopDeltaTimes, PopDraws, MaxGameTime)
    \/ GridChange

\* one agent under ticks while the grid is rebuilt between the ticks
SpecTarget == InitTarget /\ [][NextTarget]_vars

\* the driver's clock stops the fair runs here
MaxLiveTime == 606

LiveDeltaTimes == {0, 80, 101, 500}
LiveDraws == [trigger : {0, 5000}, duration : DurationDraws, items : {0}]

\* one agent whose first episode was begun by the tick at time 0
InitLive ==
    /\ grid \in InitialGrids
    /\ \E t \in {"shopper", "leisurer"}, d \in LiveDraws :
          /\ d.trigger = 0
          /\ pedestrians =
                updateAIPedestrians(spawnAIPedestrian(<< >>, 0, 0, t, 0), grid, 0,
                                    [i \in {1} |-> d], 0)
    /\ gameTime = 0
    /\ pc = "loop"
    /\ spawned = << >>
    /\ lastOp = Call("tick", 0, <<0>>)
    /\ heap = NoHeap

NextLive == Tick(LiveDeltaTimes, LiveDraws, MaxLiveTime)

\* a frame that takes time
PositiveTick == Tick(LiveDeltaTimes \ {0}, LiveDraws, MaxLiveTime)

\* one agent under a driver whose frames keep coming: as long as the clock
\* allows a frame with deltaTime > 0, one eventually happens
SpecLive == InitLive /\ [][NextLive]_vars /\ WF_vars(PositiveTick)

\* the game's grid is FloodSize tiles wide and high in the flood-fill runs,
\* and at most MaxLand of its tiles are land
FloodSize == 3
MaxLand == 3

\* a grid of gridSize x gridSize tiles, water except on the tiles in land;
\* grid[y][x] is the tile in column x of row y
WaterGrid(gridSize, land) ==
    [y \in 0..(gridSize - 1) |->
        [x \in 0..(gridSize - 1) |->
            IF <<x, y>> \in land
            THEN [building |-> "grass", zone |-> "none"]
            ELSE [building |-> "water", zone |-> "none"]]]

\* the grids of the flood-fill runs: every grid of FloodSize with at most
\* MaxLand land tiles, every such grid with at most MaxLand water tiles, the
\* 5 x 5 lake and the grid of size 0
WaterGrids ==
    LET tiles  == (0..(FloodSize - 1)) \X (0..(FloodSize - 1))
        sparse == {S \in SUBSET tiles : Cardinality(S) <= MaxLand}
    IN  {WaterGrid(FloodSize, S) : S \in sparse}
        \cup {WaterGrid(FloodSize, tiles \ S) : S \in sparse}
        \cup {WaterGrid(5, {}), WaterGrid(0, {})}

\* start tiles inside and outside a grid of gridSize tiles a side
FloodStarts(gridSize) ==
    {<<0 - 1, 0>>, <<0, 0>>, <<1, 0>>, <<2, 2>>, <<0, gridSize>>}

MaxTilesValues == {0, 2, defaultMaxTiles}

\* a query of the grid with its arguments and its result
Answer(op, args, result) ==
    [op |-> op, deltaTime |-> 0, rand |-> << >>, args |-> args, result |-> result]

InitFlood ==
    /\ grid \in WaterGrids
    /\ pedestrians = << >>
    /\ gameTime = 0
    /\ pc = "call"
    /\ spawned = << >>
    /\ lastOp = Call("init", 0, << >>)
    /\ heap = NoHeap

\* findConnectedWaterTiles(grid, gridSize, startTileX, startTileY, maxTiles)
FloodFill ==
    /\ pc = "call"
    /\ pc' = "return"
    /\ \E start \in FloodStarts(GridLength(grid)), maxTiles \in MaxTilesValues :
          lastOp' = Answer("findConnectedWaterTiles",
                           [x |-> start[1], y |-> start[2], maxTiles |-> maxTiles],
                           findConnectedWaterTiles(grid, GridLength(grid),
                                                   start[1], start[2], maxTiles))
    /\ UNCHANGED <<pedestrians, grid, gameTime, spawned, heap>>

\* one flood fill of a grid of WaterGrids
SpecFlood == InitFlood /\ [][FloodFill]_vars

\* the game's grid is TourSize tiles wide and high in the tour runs
TourSize == 9

\* a grid of gridSize x gridSize tiles whose water is the rectangle of
\* width x height tiles at its origin
LakeGrid(gridSize, width, height) ==
    WaterGrid(gridSize, {t \in (0..(gridSize - 1)) \X (0..(gridSize - 1)) :
                            t[1] >= width \/ t[2] >= height})

TourGrids ==
    {LakeGrid(TourSize, width, height) :
        width \in 0..TourSize, height \in {1, 2, TourSize}}

TourStarts == {<<0, 0>>, <<1, 0>>, <<TourSize - 1, TourSize - 1>>}

\* Math.random() values (ten-thousandths) that pick tiles of the region
IndexDraws == {0, 2000, 4000, 6000, 8000, 9999}

\* the sequences of k different members of S
RECURSIVE arrangements(_, _)
arrangements(S, k) ==
    IF k = 0 THEN {<< >>}
    ELSE UNION {{<<i>> \o h : h \in arrangements(S \ {i}, k - 1)} : i \in S}

\* the outcomes of tilesWithDist.sort(...) as far as the for loop reads
\* them: the comparator adds (Math.random() - 0.5) * 3 to the difference of
\* the distances, so it is not an ordering and the order of the result is
\* not determined; the runs take as the first count tiles any count
\* different tiles that the index draws pick
rankings(length, count) ==
    arrangements({(u * length) \div RandOne : u \in IndexDraws}, Min(count, length))

InitTour ==
    /\ grid \in TourGrids
    /\ pedestrians = << >>
    /\ gameTime = 0
    /\ pc = "call"
    /\ spawned = << >>
    /\ lastOp = Call("init", 0, << >>)
    /\ heap = NoHeap

\* the locals of a call of generateTourWaypoints; spacedCount is the length
\* of waypoints when the for loop ended
TourCall(start, waterTiles, numWaypoints, tour, spacedCount) ==
    [op |-> "generateTourWaypoints", deltaTime |-> 0, rand |-> << >>,
     args |-> [x |-> start[1], y |-> start[2]],
     waterTiles |-> waterTiles, numWaypoints |-> numWaypoints,
     usedIndices |-> tour.usedIndices, spacedCount |-> spacedCount,
     sorted |-> FALSE, result |-> tour.waypoints]

\* generateTourWaypoints(grid, gridSize, startTileX, startTileY) up to the
\* choice of numWaypoints
TourStart ==
    /\ pc = "call"
    /\ \E start \in TourStarts :
          LET waterTiles == findConnectedWaterTiles(grid, GridLength(grid),
                                                    start[1], start[2],
                                                    defaultMaxTiles)
              empty      == [waypoints |-> << >>, usedIndices |-> {}]
          IN  IF Len(waterTiles) < 3
              THEN /\ lastOp' = TourCall(start, waterTiles, 0, empty, 0)
                   /\ pc' = "return"
              ELSE /\ lastOp' = TourCall(start, waterTiles,
                                         numWaypointsOf(Len(waterTiles)), empty, 0)
                   /\ pc' = "rank"
    /\ UNCHANGED <<pedestrians, grid, gameTime, spawned, heap>>

\* the sort of tilesWithDist and the for loop over its first tiles; sorted
\* records that the ranking is the one of a sort without noise
TourRank ==
    /\ pc = "rank"
    /\ \E ranked \in rankings(Len(lastOp.waterTiles), lastOp.numWaypoints)
                         \cup {sortedRanking(lastOp.waterTiles, lastOp.numWaypoints)} :
          LET tour == spacedPass(lastOp.waterTiles, ranked, lastOp.numWaypoints, 0,
                                 [waypoints |-> << >>, usedIndices |-> {}])
          IN  /\ lastOp' = [lastOp EXCEPT
                               !.result = tour.waypoints,
                               !.usedIndices = tour.usedIndices,
                               !.spacedCount = Len(tour.waypoints),
                               !.sorted = (ranked = sortedRanking(lastOp.waterTiles,
                                                                  lastOp.numWaypoints))]
              /\ pc' = IF filling(tour.waypoints, lastOp.numWaypoints, lastOp.waterTiles)
                       THEN "fill" ELSE "return"
    /\ UNCHANGED <<pedestrians, grid, gameTime, spawned, heap>>

\* one turn of the while loop of generateTourWaypoints
TourFill ==
    /\ pc = "fill"
    /\ \E u \in IndexDraws :
          LET tour == fillStep(lastOp.waterTiles,
                               [waypoints   |-> lastOp.result,
                                usedIndices |-> lastOp.usedIndices], u)
          IN  /\ lastOp' = [lastOp EXCEPT !.result = tour.waypoints,
                                          !.usedIndices = tour.usedIndices]
              /\ pc' = IF filling(tour.waypoints, lastOp.numWaypoints, lastOp.waterTiles)
                       THEN "fill" ELSE "return"
    /\ UNCHANGED <<pedestrians, grid, gameTime, spawned, heap>>

NextTour == TourStart \/ TourRank \/ TourFill

\* one call of generateTourWaypoints on a grid of TourGrids
SpecTour == InitTour /\ [][NextTour]_vars

\* the grid is ShopW x ShopH tiles in the shop-search runs and holds at most
\* MaxShops shops
ShopW == 5
ShopH == 3
MaxShops == 2

\* a grid of width x height tiles, grid[x][y], with a shop of the given type
\* on the tiles in shops and the building other on every other tile
ShopGrid(width, height, shops, type, other) ==
    [x \in 0..(width - 1) |->
        [y \in 0..(height - 1) |->
            IF <<x, y>> \in shops
            THEN [building |-> type, zone |-> "commercial"]
            ELSE [building |-> other, zone |-> "none"]]]

ShopGrids ==
    LET tiles == (0..(ShopW - 1)) \X (0..(ShopH - 1))
    IN  {ShopGrid(ShopW, ShopH, S, kind[1], kind[2]) :
            S \in {T \in SUBSET tiles : Cardinality(T) <= MaxShops},
            kind \in {<<"shop_small", "undefined">>, <<"office_high", "house_small">>}}

\* the tiles the searching pedestrian stands on: two corners and the middle
ShopOrigins ==
    {<<0, 0>>, <<ShopW \div 2, ShopH \div 2>>, <<ShopW - 1, ShopH - 1>>}

InitShop ==
    /\ grid \in ShopGrids
    /\ pedestrians = << >>
    /\ gameTime = 0
    /\ pc = "loop"
    /\ spawned = << >>
    /\ lastOp = Call("init", 0, << >>)
    /\ heap = NoHeap

\* findNearestShop(pedestrian, grid) for a pedestrian on a tile of the grid;
\* the result is the coordinate found, or << >> for null
FindShop ==
    /\ pc = "loop"
    /\ \E origin \in ShopOrigins :
          LET tileX == origin[1]
              tileY == origin[2]
              nearestShop == findNearestShop([tileX |-> tileX, tileY |-> tileY], grid)
          IN  lastOp' = Answer("findNearestShop", [x |-> tileX, y |-> tileY],
                               IF nearestShop.found
                               THEN <<[x |-> nearestShop.x, y |-> nearestShop.y]>>
                               ELSE << >>)
    /\ UNCHANGED <<pedestrians, grid, gameTime, pc, spawned, heap>>

\* shop searches on the grids of ShopGrids
SpecShop == InitShop /\ [][FindShop]_vars

\* a panel reads calculateAIPedestrianStats(pedestrians)
CalculateStats ==
    /\ pc = "loop"
    /\ lastOp' = Answer("calculateAIPedestrianStats", << >>,
                        calculateAIPedestrianStats(pedestrians))
    /\ UNCHANGED <<pedestrians, grid, gameTime, pc, spawned, heap>>

NextStats ==
    \/ Spawn({"shopper"}, {0})
    \/ PushSpawned
    \/ Tick(PopDeltaTimes, PopDraws, MaxGameTime)
    \/ AddPedestrian
    \/ CalculateStats

\* a mixed population under ticks, with the statistics read at any time
SpecStats == Init /\ [][NextStats]_vars

\* the info panel reads getPedestrianStats(pedestrians)
GetStats ==
    /\ pc = "loop"
    /\ lastOp' = Answer("getPedestrianStats", << >>, getPedestrianStats(pedestrians))
    /\ UNCHANGED <<pedestrians, grid, gameTime, pc, spawned, heap>>

\* the driver's clock stops the long-frame runs here
MaxDecayTime == 500

\* frames of 0 s and of 50 s
DecayDeltaTimes == {0, 500}

NextDecay ==
    \/ Spawn({"shopper"}, {0})
    \/ PushSpawned
    \/ Tick(DecayDeltaTimes, PopDraws, MaxDecayTime)
    \/ AddPedestrian
    \/ CalculateStats
    \/ GetStats

\* a mixed population under frames long enough to wear satisfaction down to
\* 0, with both statistics read at any time
SpecDecay == Init /\ [][NextDecay]_vars

\* a grid without rows
EmptyGrid == << >>

\* a grid of 2 x 2 tiles with a lake tile, a marina, a house and a hospital
HarbourGrid ==
    [y \in 0..1 |->
        [x \in 0..1 |->
            [building |-> IF <<x, y>> = <<0, 0>> THEN "water"
                          ELSE IF <<x, y>> = <<1, 0>> THEN "marina_docks_small"
                          ELSE IF <<x, y>> = <<0, 1>> THEN "house_small"
                          ELSE "hospital",
             zone |-> "none"]]]

QueryGrids == {EmptyGrid, HarbourGrid}

\* the gridSize arguments of the queries
QuerySizes == {0 - 1, 0, 1, 2}

\* the tile arguments of the queries
QueryTiles == {<<0 - 1, 0>>, <<0, 0>>, <<1, 1>>}

InitQuery ==
    /\ grid \in QueryGrids
    /\ pedestrians = << >>
    /\ gameTime = 0
    /\ pc \in {"loop", "call"}
    /\ spawned = << >>
    /\ lastOp = Call("init", 0, << >>)
    /\ heap = NoHeap

\* the answer of a finder called with the grid, gridSize and a tile
QueryAnswer(op, gridSize, tile, outcome) ==
    Answer(op, [gridSize |-> gridSize, x |-> tile[1], y |-> tile[2]], outcome)

QueryResidential ==
    /\ pc = "call"
    /\ pc' = "return"
    /\ \E gridSize \in QuerySizes :
          lastOp' = QueryAnswer("findResidentialBuildings", gridSize, <<0, 0>>,
                                findResidentialBuildings(grid, gridSize))
    /\ UNCHANGED <<pedestrians, grid, gameTime, spawned, heap>>

QueryHeliports ==
    /\ pc = "call"
    /\ pc' = "return"
    /\ \E gridSize \in QuerySizes :
          lastOp' = QueryAnswer("findHeliports", gridSize, <<0, 0>>,
                                findHeliports(grid, gridSize))
    /\ UNCHANGED <<pedestrians, grid, gameTime, spawned, heap>>

QueryDocks ==
    /\ pc = "call"
    /\ pc' = "return"
    /\ \E gridSize \in QuerySizes :
          lastOp' = QueryAnswer("findMarinasAndPiers", gridSize, <<0, 0>>,
                                findMarinasAndPiers(grid, gridSize))
    /\ UNCHANGED <<pedestrians, grid, gameTime, spawned, heap>>

QueryAdjacentWater ==
    /\ pc = "call"
    /\ pc' = "return"
    /\ \E gridSize \in QuerySizes, dock \in QueryTiles :
          lastOp' = QueryAnswer("findAdjacentWaterTile", gridSize, dock,
                                findAdjacentWaterTile(grid, gridSize, dock[1], dock[2]))
    /\ UNCHANGED <<pedestrians, grid, gameTime, spawned, heap>>

QueryFlood ==
    /\ pc = "call"
    /\ pc' = "return"
    /\ \E gridSize \in QuerySizes, start \in QueryTiles :
          lastOp' = QueryAnswer("findConnectedWaterTiles", gridSize, start,
                                floodOutcome(grid, gridSize, start[1], start[2],
                                             defaultMaxTiles))
    /\ UNCHANGED <<pedestrians, grid, gameTime, spawned, heap>>

\* the lake of HarbourGrid has one tile, so every call ends at the first
\* return of generateTourWaypoints or raises
QueryTour ==
    /\ pc = "call"
    /\ pc' = "return"
    /\ \E gridSize \in QuerySizes, start \in QueryTiles :
          LET tour == tourOutcome(grid, gridSize, start[1], start[2])
          IN  /\ tour.ended
              /\ lastOp' = QueryAnswer("generateTourWaypoints", gridSize, start,
                                       tour.outcome)
    /\ UNCHANGED <<pedestrians, grid, gameTime, spawned, heap>>

\* findNearestShop takes no gridSize
QueryShop ==
    /\ pc = "call"
    /\ pc' = "return"
    /\ \E origin \in QueryTiles :
          LET p == [tileX |-> origin[1], tileY |-> origin[2]]
              nearestShop == findNearestShop(p, grid)
          IN  lastOp' = QueryAnswer("findNearestShop", GridLength(grid), origin,
                            IF findNearestShopRaises(p, grid) THEN Raised
                            ELSE IF nearestShop.found
                            THEN Returned(<<[x |-> nearestShop.x, y |-> nearestShop.y]>>)
                            ELSE Returned(<< >>))
    /\ UNCHANGED <<pedestrians, grid, gameTime, spawned, heap>>

NextQuery ==
    \/ Spawn({"shopper"}, {0})
    \/ PushSpawned
    \/ Tick(PopDeltaTimes, PopDraws, MaxGameTime)
    \/ QueryResidential
    \/ QueryHeliports
    \/ QueryDocks
    \/ QueryAdjacentWater
    \/ QueryFlood
    \/ QueryTour
    \/ QueryShop

\* a run is either one spatial query of a grid that may be empty, with a
\* gridSize that may be zero or negative, or a population ticking on it
SpecQuery == InitQuery /\ [][NextQuery]_vars

\* the game's grid is HeliSize tiles wide and high in the heliport runs
HeliSize == 3

\* the buildings at most MaxSites tiles of a heliport run carry
MaxSites == 2

\* a grid whose tiles in sites carry a building of the given type, on grass
SiteGrid(gridSize, sites, type) ==
    [y \in 0..(gridSize - 1) |->
        [x \in 0..(gridSize - 1) |->
            IF <<x, y>> \in sites
            THEN [building |-> type, zone |-> "none"]
            ELSE [building |-> "grass", zone |-> "none"]]]

\* a town of malls with a hospital, an airport and a police station on its
\* diagonal
MallTown(gridSize) ==
    [y \in 0..(gridSize - 1) |->
        [x \in 0..(gridSize - 1) |->
            [building |-> IF x # y THEN "mall"
                          ELSE IF x = 0 THEN "hospital"
                          ELSE IF x = 1 THEN "airport"
                          ELSE "police_station",
             zone |-> "none"]]]

HeliGrids ==
    LET tiles == (0..(HeliSize - 1)) \X (0..(HeliSize - 1))
    IN  {SiteGrid(HeliSize, S, type) :
            S \in {T \in SUBSET tiles : Cardinality(T) <= MaxSites},
            type \in {"hospital", "airport", "police_station", "mall", "shop_small"}}
        \cup {MallTown(HeliSize)}

InitHeli ==
    /\ grid \in HeliGrids
    /\ pedestrians = << >>
    /\ gameTime = 0
    /\ pc = "call"
    /\ spawned = << >>
    /\ lastOp = Call("init", 0, << >>)
    /\ heap = NoHeap

\* findHeliports(grid, gridSize) on the game's grid
FindHeliports ==
    /\ pc = "call"
    /\ pc' = "return"
    /\ lastOp' = QueryAnswer("findHeliports", GridLength(grid), <<0, 0>>,
                             findHeliports(grid, GridLength(grid)))
    /\ UNCHANGED <<pedestrians, grid, gameTime, spawned, heap>>

\* one heliport search of a grid of HeliGrids
SpecHeli == InitHeli /\ [][FindHeliports]_vars

\* the orders in which the pedestrians of a list of n can be processed
orders(n) == arrangements(1..n, n)

\* a batch tick that processes the pedestrians in some order, each with the
\* draws assigned to it
TickInOrder ==
    /\ pc = "loop"
    /\ \E deltaTime \in PopDeltaTimes :
          /\ gameTime + deltaTime <= MaxGameTime
          /\ gameTime' = gameTime + deltaTime
          /\ \E d \in [1..Len(pedestrians) -> PopDraws], order \in orders(Len(pedestrians)) :
                /\ \A i \in 1..Len(pedestrians) : d[i] \in usedDraws(pedestrians[i], PopDraws)
                /\ pedestrians' = processInOrder(pedestrians, grid, order, deltaTime,
                                                 d, gameTime + deltaTime)
                /\ lastOp' = [op |-> "tick", deltaTime |-> deltaTime,
                              rand |-> [i \in 1..Len(pedestrians) |->
                                           IF evaluatesTrigger(pedestrians[i])
                                           THEN d[i].trigger ELSE undefined],
                              draws |-> d, order |-> order]
    /\ UNCHANGED <<grid, pc, spawned, heap>>

NextOrder ==
    \/ Spawn({"shopper", "leisurer"}, {0})
    \/ PushSpawned
    \/ TickInOrder

\* a population of agents whose batch ticks visit them in any order
SpecOrder == Init /\ [][NextOrder]_vars

\* the game's grid is TownSize tiles wide and high in the runs that compare
\* the shop search with the destination finder
TownSize == 3

\* the grids of these runs: at most MaxShops shops, or schools and parks, on
\* empty ground
TownGrids ==
    LET tiles == (0..(TownSize - 1)) \X (0..(TownSize - 1))
    IN  {ShopGrid(TownSize, TownSize, S, type, "undefined") :
            S \in {T \in SUBSET tiles : Cardinality(T) <= MaxShops},
            type \in {"shop_small", "mall", "school", "park"}}

TownOrigins == {<<0, 0>>, <<TownSize - 1, 0>>, <<1, TownSize - 1>>}

InitTown ==
    /\ grid \in TownGrids
    /\ pedestrians = << >>
    /\ gameTime = 0
    /\ pc = "call"
    /\ spawned = << >>
    /\ lastOp = Call("init", 0, << >>)
    /\ heap = NoHeap

\* an agent on a tile of the grid looks for its target shop
\* (findNearestShop), and the pedestrian system lists the destinations of
\* the same grid (findPedestrianDestinations)
FindTarget ==
    /\ pc = "call"
    /\ pc' = "return"
    /\ \E origin \in TownOrigins :
          LET p == [tileX |-> origin[1], tileY |-> origin[2]]
              nearestShop == findNearestShop(p, grid)
          IN  lastOp' = [op |-> "findNearestShop", deltaTime |-> 0, rand |-> << >>,
                         args |-> [x |-> origin[1], y |-> origin[2]],
                         result |-> IF nearestShop.found
                                    THEN <<[x |-> nearestShop.x, y |-> nearestShop.y]>>
                                    ELSE << >>,
                         destinations |->
                             findPedestrianDestinations(grid, GridLength(grid)).value]
    /\ UNCHANGED <<pedestrians, grid, gameTime, spawned, heap>>

\* one target search and one destination listing on a grid of TownGrids
SpecTown == InitTown /\ [][FindTarget]_vars

\* the side of the grid of the firework searches
FireworkSize == 2

\* the building types a caller's array of firework types may hold
FireworkTypes == {"mall", "hospital"}

\* the array objects the callers hold
ArrayRefs == {"a", "b"}

\* a grid with a mall, a hospital, a police station and a grass tile
FireworkGrid ==
    [y \in 0..(FireworkSize - 1) |->
        [x \in 0..(FireworkSize - 1) |->
            [building |-> IF <<x, y>> = <<0, 0>> THEN "mall"
                          ELSE IF <<x, y>> = <<1, 0>> THEN "hospital"
                          ELSE IF <<x, y>> = <<0, 1>> THEN "police_station"
                          ELSE "grass",
             zone |-> "none"]]]

InitFireworks ==
    /\ grid = FireworkGrid
    /\ pedestrians = << >>
    /\ gameTime = 0
    /\ pc = "loop"
    /\ spawned = << >>
    /\ lastOp = Call("init", 0, << >>)
    /\ heap \in {[NoHeap EXCEPT !.arrays = arrays] :
                    arrays \in [ArrayRefs -> SUBSET FireworkTypes]}

\* a caller changes, in place, the contents of an array of firework types
ChangeTypes ==
    /\ \E ref \in ArrayRefs, types \in SUBSET FireworkTypes :
          /\ types # heap.arrays[ref]
          /\ heap' = [heap EXCEPT !.arrays[ref] = types]
          /\ lastOp' = Answer("changeTypes", [array |-> ref, types |-> types,
                                              cached |-> heap.cachedFireworkTypesArray,
                                              gridSize |-> 0],
                              Returned(<< >>))
    /\ UNCHANGED <<pedestrians, grid, gameTime, pc, spawned>>

\* findFireworkBuildings(grid, gridSize, fireworkBuildingTypes) with one of
\* the callers' arrays
FindFireworkBuildings ==
    /\ \E ref \in ArrayRefs, gridSize \in {0, GridLength(grid)} :
          /\ lastOp' = Answer("findFireworkBuildings",
                              [array |-> ref, types |-> heap.arrays[ref],
                               cached |-> heap.cachedFireworkTypesArray,
                               gridSize |-> gridSize],
                              findFireworkBuildings(grid, gridSize, heap, ref))
          /\ heap' = IF gridSize <= 0 THEN heap ELSE cachedAfter(heap, ref)
    /\ UNCHANGED <<pedestrians, grid, gameTime, pc, spawned>>

NextFireworks == ChangeTypes \/ FindFireworkBuildings

\* any sequence of firework searches with two arrays of types the callers
\* change in place between the calls
SpecFireworks == InitFireworks /\ [][NextFireworks]_vars

\* the driver's clock stops the runs of the older record here
MaxLegacyTime == 404

LegacyDeltaTimes == {0, 101, 202}
LegacyDraws == [trigger : {0, 5000}, duration : {0}, items : {0, 9999}]

\* an agent record as an older save holds it: the record of a spawn without
\* its satisfactionLevel field
legacyRecord(p) == [p EXCEPT !.satisfactionLevel = undefined]

\* the list holds one agent loaded from an older record
InitLegacy ==
    /\ grid \in InitialGrids
    /\ \E t \in {"shopper", "leisurer"}, u \in {0, 9999} :
          pedestrians = <<legacyRecord(spawnAIPedestrian(<< >>, 0, 0, t, u)[1])>>
    /\ gameTime = 0
    /\ pc = "loop"
    /\ spawned = << >>
    /\ lastOp = Call("init", 0, << >>)
    /\ heap = NoHeap

NextLegacy ==
    \/ Tick(LegacyDeltaTimes, LegacyDraws, MaxLegacyTime)
    \/ CalculateStats
    \/ GetStats

\* an agent without satisfactionLevel under ticks, with both statistics read
\* at any time
SpecLegacy == InitLegacy /\ [][NextLegacy]_vars

\* the driver's clock stops the runs that spend a budget here
MaxBudgetTime == 505

BudgetDeltaTimes == {0, 101}
SpendingDraws == [trigger : {0, 5000}, duration : {0}, items : {0, 9999}]

\* the list holds one ordinary pedestrian of the game, so that one spawn
\* fills it
InitBudget ==
    /\ grid \in InitialGrids
    /\ pedestrians = <<ordinaryPedestrian(1, 0, 0)>>
    /\ gameTime = 0
    /\ pc = "loop"
    /\ spawned = << >>
    /\ lastOp = Call("init", 0, << >>)
    /\ heap = NoHeap

NextBudget ==
    \/ Spawn({"shopper", "leisurer"}, {0, 200})
    \/ PushSpawned
    \/ Tick(BudgetDeltaTimes, SpendingDraws, MaxBudgetTime)

\* an agent spawned with 500 or 530 to spend, under ticks long enough to
\* spend it all
SpecBudget == InitBudget /\ [][NextBudget]_vars

\* the eviction stops once the list holds this id
MaxId == 5

\* the list is empty or holds one ordinary pedestrian of the game
InitIds ==
    /\ grid \in InitialGrids
    /\ pedestrians \in {<< >>, <<ordinaryPedestrian(1, 0, 0)>>}
    /\ gameTime = 0
    /\ pc = "loop"
    /\ spawned = << >>
    /\ lastOp = Call("init", 0, << >>)
    /\ heap = NoHeap

\* the population cap evicts one of the agents from the list
Evict ==
    /\ pc = "loop"
    /\ nextId(pedestrians) <= MaxId
    /\ \E k \in 1..Len(pedestrians) :
          /\ pedestrians[k].isAI
          /\ pedestrians' = SubSeq(pedestrians, 1, k - 1)
                            \o SubSeq(pedestrians, k + 1, Len(pedestrians))
    /\ lastOp' = Call("evict", 0, << >>)
    /\ UNCHANGED <<grid, gameTime, pc, spawned, heap>>

NextIds ==
    \/ Spawn({"shopper", "leisurer"}, {0})
    \/ PushSpawned
    \/ InitializePopulation(TypeDraws, {0})
    \/ Evict
    \/ ClearAll

\* spawns, initial populations, evictions and clears in any order
SpecIds == InitIds /\ [][NextIds]_vars

----------------------------------------------------------------------------
(* Properties *)

AIIndices(peds) == {i \in 1..Len(peds) : peds[i].isAI}
AICount(peds) == Cardinality(AIIndices(peds))

\* a step that is one batch tick
TickStep == lastOp'.op = "tick" /\ Len(pedestrians') = Len(pedestrians)

\* the tick completes the episode of the i-th pedestrian
Completes(i) ==
    /\ TickStep
    /\ pedestrians[i].isAI
    /\ pedestrians[i].isShopping
    /\ ~pedestrians'[i].isShopping

\* C1: every autonomous agent's satisfaction lies in [0, 1] after spawn and
\* after every tick with deltaTime >= 0.
C1_SatisfactionInRange ==
    \A i \in AIIndices(pedestrians) :
        /\ 0 <= pedestrians[i].satisfactionLevel
        /\ pedestrians[i].satisfactionLevel <= One

\* an agent whose third purchase would have raised satisfaction above 1
C1_Witness ==
    \E i \in AIIndices(pedestrians) :
        /\ pedestrians[i].shopVisitsToday = 3
        /\ pedestrians[i].satisfactionLevel = One

\* C2: a completed episode debits (and credits to totalMoneySpent) at most
\* the budget the agent had before it, and no reachable budget is negative.
C2_SpendWithinBudget ==
    [][\A i \in AIIndices(pedestrians) :
          /\ pedestrians[i].shoppingBudget >= 0
          /\ TickStep => pedestrians'[i].shoppingBudget >= 0
          /\ Completes(i) =>
                /\ pedestrians[i].shoppingBudget - pedestrians'[i].shoppingBudget
                      <= pedestrians[i].shoppingBudget
                /\ pedestrians'[i].totalMoneySpent - pedestrians[i].totalMoneySpent
                      <= pedestrians[i].shoppingBudget]_vars

\* an agent whose last purchase was cut down to the 30 it had left
C2_Witness ==
    \E i \in AIIndices(pedestrians) :
        /\ pedestrians[i].shoppingBudget = 0
        /\ pedestrians[i].totalMoneySpent = 530
        /\ pedestrians[i].shopVisitsToday = 3

\* C3: every autonomous agent is either not shopping with progress 0 and no
\* phase, or shopping with a phase among browsing, paying, leaving and
\* 0 <= progress < 1.
C3_OneOfTwoShapes ==
    \A i \in AIIndices(pedestrians) :
        LET p == pedestrians[i]
        IN  \/ /\ ~p.isShopping
               /\ p.shoppingProgress = 0
               /\ p.shoppingActivity = "undefined"
            \/ /\ p.isShopping
               /\ p.shoppingActivity \in {"browsing", "paying", "carrying_bags"}
               /\ 0 <= p.shoppingProgress
               /\ p.shoppingProgress < One

\* an agent in the middle of its second episode
C3_Witness ==
    \E i \in AIIndices(pedestrians) :
        /\ pedestrians[i].isShopping
        /\ pedestrians[i].shoppingProgress > 0
        /\ pedestrians[i].shopVisitsToday = 1

\* the phase the progress bands prescribe
phaseOfProgress(progress) ==
    IF progress < 300 THEN "browsing"
    ELSE IF progress < 700 THEN "paying"
    ELSE "carrying_bags"

\* C4: while an agent is shopping, its phase is browsing below 0.3 of the
\* progress, paying from 0.3 to 0.7 and leaving (carrying bags) from 0.7 on.
C4_PhaseFollowsProgress ==
    \A i \in AIIndices(pedestrians) :
        pedestrians[i].isShopping =>
            pedestrians[i].shoppingActivity
                = phaseOfProgress(pedestrians[i].shoppingProgress)

\* C5: spawnAIPedestrian returns null exactly when the number of autonomous
\* agents in the list has reached maxAIPedestrians.
C5_NullIffAICapReached ==
    pc = "spawned" =>
        (spawned = << >> <=> AICount(pedestrians) >= maxAIPedestrians)

\* C6: the number of autonomous agents never exceeds maxAIPedestrians, and
\* one initializeAIPedestrians call adds at most initialAIPedestrians.
C6_PopulationCapped ==
    [][/\ AICount(pedestrians) <= maxAIPedestrians
       /\ AICount(pedestrians') <= maxAIPedestrians
       /\ lastOp'.op = "initialize" =>
             Len(pedestrians') - Len(pedestrians) <= initialAIPedestrians]_vars

\* initializeAIPedestrians has just filled the population up to the cap
C6_Witness ==
    /\ lastOp.op = "initialize"
    /\ AICount(pedestrians) = maxAIPedestrians

\* C7: the agent spawnAIPedestrian returns is autonomous, not shopping, with
\* progress 0, no phase, no target shop, satisfaction 0.5, nothing spent or
\* bought, no visit, and a budget within [minBudget, maxBudget].
C7_FreshAgent ==
    (pc = "spawned" /\ spawned # << >>) =>
        LET p == spawned[1]
        IN  /\ p.isAI
            /\ ~p.isShopping
            /\ p.shoppingProgress = 0
            /\ p.shoppingActivity = "undefined"
            /\ p.currentShopX = undefined
            /\ p.currentShopY = undefined
            /\ p.satisfactionLevel = 500
            /\ p.totalMoneySpent = 0
            /\ p.itemsBought = 0
            /\ p.shopVisitsToday = 0
            /\ minBudget <= p.shoppingBudget
            /\ p.shoppingBudget <= maxBudget

\* spawn has returned an agent with a budget near the top of the range
C7_Witness ==
    /\ pc = "spawned"
    /\ spawned # << >>
    /\ spawned[1].shoppingBudget = 1997

\* the trigger probability the specification states, in ten-thousandths
statedProbability(aiType, satisfaction, budget) ==
    Min(5000,
        getShoppingProbabilityByType(aiType)
        + (1000 - satisfaction) * 3
        + (Min(10000, (budget * 10000) \div 2000) * 2) \div 10)

\* C8: a tick starts an episode for an agent that is not shopping exactly
\* when its draw of Math.random() is below
\* min(0.5, base(archetype) + (1 - satisfaction) * 0.3 + min(1, budget / 2000) * 0.2).
C8_TriggerProbability ==
    [][TickStep =>
          \A i \in AIIndices(pedestrians) :
              evaluatesTrigger(pedestrians[i]) =>
                  (pedestrians'[i].isShopping <=>
                      lastOp'.rand[i] < statedProbability(
                                            pedestrians'[i].aiType,
                                            pedestrians'[i].satisfactionLevel,
                                            pedestrians[i].shoppingBudget))]_vars

\* C9: whatever the archetype, satisfaction and budget, a draw of 0.5 or more
\* never starts an episode: the trigger probability is at most 0.5.
C9_ProbabilityAtMostHalf ==
    [][TickStep =>
          \A i \in AIIndices(pedestrians) :
              (evaluatesTrigger(pedestrians[i]) /\ pedestrians'[i].isShopping)
                  => lastOp'.rand[i] < 5000]_vars

\* a tick has just started an episode for an agent whose unclamped
\* probability exceeds 0.5
C9_Witness ==
    /\ lastOp.op = "tick"
    /\ \E i \in AIIndices(pedestrians) :
          /\ lastOp.rand[i] # undefined
          /\ pedestrians[i].isShopping
          /\ totalProbability(pedestrians[i]) > 5000

\* C10: a completing tick sets itemsBought to 1..5, spends
\* min(itemsBought * averageItemPrice, budget before), debits the budget and
\* credits totalMoneySpent by exactly that, and adds 1 to the visits.
C10_CompletionEffects ==
    [][\A i \in AIIndices(pedestrians) :
          Completes(i) =>
              LET p     == pedestrians[i]
                  q     == pedestrians'[i]
                  spent == Min(q.itemsBought * 50, p.shoppingBudget)
              IN  /\ q.itemsBought \in 1..5
                  /\ q.shoppingBudget = p.shoppingBudget - spent
                  /\ q.totalMoneySpent = p.totalMoneySpent + spent
                  /\ q.shopVisitsToday = p.shopVisitsToday + 1]_vars

\* an agent that bought five items for the full price in its first episode
C10_Witness ==
    \E i \in AIIndices(pedestrians) :
        /\ pedestrians[i].shopVisitsToday = 1
        /\ pedestrians[i].itemsBought = 5
        /\ pedestrians[i].totalMoneySpent = 250
        /\ ~pedestrians[i].isShopping

\* C11: in a tick that completes an episode the decay comes before the
\* bonus: satisfaction s becomes min(1, max(0, s - decayRate * deltaTime) +
\* satisfactionGainPerPurchase); and a shopping agent with duration 10 s
\* completes in a tick of 10.1 s.
C11_DecayBeforeBonus ==
    [][\A i \in AIIndices(pedestrians) :
          LET p == pedestrians[i]
              q == pedestrians'[i]
              deltaTime == lastOp'.deltaTime
          IN  /\ Completes(i) =>
                    q.satisfactionLevel =
                        Min(One, Max(0, p.satisfactionLevel - 1 * deltaTime) + 300)
              /\ (TickStep /\ p.isShopping /\ p.shoppingDuration = 100
                           /\ deltaTime = 101) => ~q.isShopping]_vars

\* a third episode completed by one tick of 10.1 s, where the decayed value
\* plus the bonus (0.898 - 0.101 + 0.3) is cut to 1
C11_Witness ==
    /\ lastOp.op = "tick"
    /\ lastOp.deltaTime = 101
    /\ \E i \in AIIndices(pedestrians) :
          /\ ~pedestrians[i].isShopping
          /\ pedestrians[i].shopVisitsToday = 3
          /\ pedestrians[i].lastShoppingTime = gameTime
          /\ pedestrians[i].satisfactionLevel = One

\* the tick begins an episode of the i-th pedestrian
Begins(i) ==
    /\ TickStep
    /\ pedestrians[i].isAI
    /\ ~pedestrians[i].isShopping
    /\ pedestrians'[i].isShopping

\* no commercial building stands within searchRange tiles of (tileX, tileY)
noShopInRange(g, tileX, tileY) ==
    \A x \in DOMAIN g : \A y \in DOMAIN g[x] :
        (x - tileX \in (0 - searchRange)..searchRange
            /\ y - tileY \in (0 - searchRange)..searchRange)
        => g[x][y].building \notin commercialTypes

\* C12: in any episode, first or later, that begins with no commercial tile
\* within the search radius, the agent shops without a target-shop
\* coordinate, and the episode completes once its duration has elapsed.
C12_NoShopNoTarget ==
    [][\A i \in AIIndices(pedestrians) :
          LET p == pedestrians[i]
              q == pedestrians'[i]
          IN  /\ (Begins(i) /\ noShopInRange(grid, p.tileX, p.tileY)) =>
                    /\ q.currentShopX = undefined
                    /\ q.currentShopY = undefined
              /\ (TickStep /\ p.isShopping /\ lastOp'.deltaTime >= p.shoppingDuration)
                    => ~q.isShopping]_vars

\* an episode of the agent is at its start and the clock leaves room for
\* its whole duration and one more frame
EpisodeStarted ==
    /\ pedestrians[1].isShopping
    /\ pedestrians[1].shoppingProgress = 0
    /\ \E deltaTime \in LiveDeltaTimes \ {0} :
          gameTime + pedestrians[1].shoppingDuration + deltaTime <= MaxLiveTime

\* C13: a started episode of an agent that stays in the list eventually
\* completes when ticks with deltaTime > 0 keep occurring, and it is over
\* by the first tick at which the deltaTime accumulated since its start
\* reaches its duration (for the episode begun at time 0 the accumulated
\* deltaTime is the clock).
C13_EpisodeCompletes ==
    /\ EpisodeStarted ~> ~pedestrians[1].isShopping
    /\ []((pedestrians[1].isShopping /\ pedestrians[1].shopVisitsToday = 0)
            => gameTime < pedestrians[1].shoppingDuration)

\* a first episode of 10 s over after two frames of 8 s
C13_Witness ==
    /\ ~pedestrians[1].isShopping
    /\ pedestrians[1].shopVisitsToday = 1
    /\ pedestrians[1].shoppingDuration = 100
    /\ pedestrians[1].lastShoppingTime = 160
    /\ gameTime = 160

\* the tiles of g that hold water
waterOf(g) ==
    {t \in (DOMAIN g) \X (DOMAIN g) : g[t[2]][t[1]].building = "water"}

\* the tiles joined to a tile of S by one step left, right, up or down
adjacentTo(S) ==
    {<<t[1] + d[1], t[2] + d[2]>> :
        t \in S, d \in {<<1, 0>>, <<0 - 1, 0>>, <<0, 1>>, <<0, 0 - 1>>}}

\* the water tiles joined to S through water tiles
RECURSIVE grow(_, _)
grow(g, S) ==
    LET T == S \cup (adjacentTo(S) \cap waterOf(g))
    IN  IF T = S THEN S ELSE grow(g, T)

\* the 4-connected water region that holds (x, y): empty when (x, y) is
\* outside the grid or not water
regionOf(g, x, y) == grow(g, {<<x, y>>} \cap waterOf(g))

tilesOf(seq) == {<<seq[k].x, seq[k].y>> : k \in 1..Len(seq)}

\* C14: the flood fill returns at most maxSize tiles, each inside the grid,
\* water, and joined to the start through water tiles; from a start outside
\* the grid or not on water it returns nothing.
C14_FloodWithinRegion ==
    lastOp.op = "findConnectedWaterTiles" =>
        LET a == lastOp.args
            region == regionOf(grid, a.x, a.y)
        IN  /\ Len(lastOp.result) <= a.maxTiles
            /\ tilesOf(lastOp.result) \subseteq waterOf(grid)
            /\ tilesOf(lastOp.result) \subseteq region
            /\ <<a.x, a.y>> \notin waterOf(grid) => lastOp.result = << >>

\* a fill cut short at two tiles of a larger region
C14_Witness ==
    /\ lastOp.op = "findConnectedWaterTiles"
    /\ lastOp.args.maxTiles = 2
    /\ Len(lastOp.result) = 2
    /\ Cardinality(regionOf(grid, lastOp.args.x, lastOp.args.y)) > 2
    /\ Cardinality(waterOf(grid)) > Cardinality(regionOf(grid, lastOp.args.x, lastOp.args.y))

\* C15: when the region of the start has at most maxSize tiles the flood
\* fill returns every tile of it, each once; the 5 x 5 lake from (2, 2) with
\* maxSize 200 yields its 25 tiles.
C15_FloodWholeRegion ==
    lastOp.op = "findConnectedWaterTiles" =>
        LET a == lastOp.args
            region == regionOf(grid, a.x, a.y)
        IN  /\ Cardinality(region) <= a.maxTiles =>
                  /\ tilesOf(lastOp.result) = region
                  /\ Len(lastOp.result) = Cardinality(region)
            /\ (grid = WaterGrid(5, {}) /\ a.x = 2 /\ a.y = 2 /\ a.maxTiles = 200)
                  => Len(lastOp.result) = 25

\* the 25 tiles of the 5 x 5 lake, found from (2, 2)
C15_Witness ==
    /\ lastOp.op = "findConnectedWaterTiles"
    /\ grid = WaterGrid(5, {})
    /\ lastOp.args = [x |-> 2, y |-> 2, maxTiles |-> 200]
    /\ Cardinality(tilesOf(lastOp.result)) = 25

\* generateTourWaypoints has returned
TourReturned == lastOp.op = "generateTourWaypoints" /\ pc = "return"

\* C16: generateWaypoints returns no waypoint for a region of fewer than 3
\* tiles and otherwise exactly clamp(2, 6, floor(size / 10)) waypoints, size
\* being the number of tiles of the flood fill: between 2 and 6.
C16_WaypointCount ==
    TourReturned =>
        LET size == Min(defaultMaxTiles,
                        Cardinality(regionOf(grid, lastOp.args.x, lastOp.args.y)))
            tenth == size \div 10
        IN  IF size < 3 THEN lastOp.result = << >>
            ELSE /\ Len(lastOp.result) =
                        (IF tenth < 2 THEN 2 ELSE IF tenth > 6 THEN 6 ELSE tenth)
                 /\ Len(lastOp.result) \in 2..6

\* six waypoints, not eight, on a region of 81 tiles, some of them from the
\* random fill
C16_Witness ==
    /\ TourReturned
    /\ Len(lastOp.waterTiles) = 81
    /\ Len(lastOp.result) = 6
    /\ lastOp.spacedCount < 6

\* C17: any two waypoints accepted by the spaced pass are at least 3 grid
\* units apart.
C17_SpacedApart ==
    lastOp.op = "generateTourWaypoints" =>
        \A j, k \in 1..lastOp.spacedCount :
            j # k =>
                LET a == lastOp.result[j]
                    b == lastOp.result[k]
                IN  (a.tileX - b.tileX) * (a.tileX - b.tileX)
                    + (a.tileY - b.tileY) * (a.tileY - b.tileY) >= 9

\* a tour with three spaced waypoints, one ranked tile refused for being too
\* close, and one waypoint from the random fill
C17_Witness ==
    /\ TourReturned
    /\ lastOp.numWaypoints = 4
    /\ lastOp.spacedCount = 3
    /\ Len(lastOp.result) = 4

\* the tiles of g that hold a building of the commercial category
shopsOf(g) ==
    {t \in UNION {{<<x, y>> : y \in DOMAIN g[x]} : x \in DOMAIN g} :
        g[t[1]][t[2]].building \in
            {"shop_small", "shop_medium", "mall", "office_low", "office_high"}}

\* the tiles within maxRadius of (x, y) along both axes
windowAround(x, y) ==
    ((x - 2)..(x + 2)) \X ((y - 2)..(y + 2))

squaredDistance(t, x, y) ==
    (t[1] - x) * (t[1] - x) + (t[2] - y) * (t[2] - y)

\* C18: the nearest-commercial search returns no coordinate outside the
\* window [origin - maxRadius, origin + maxRadius] or outside the grid, and
\* a coordinate it returns holds a commercial building.
C18_ResultInWindow ==
    (lastOp.op = "findNearestShop" /\ lastOp.result # << >>) =>
        LET t == <<lastOp.result[1].x, lastOp.result[1].y>>
        IN  /\ t \in windowAround(lastOp.args.x, lastOp.args.y)
            /\ t[1] \in DOMAIN grid
            /\ t[2] \in DOMAIN grid[t[1]]
            /\ t \in shopsOf(grid)

\* a shop found one tile away on a grid that has houses everywhere else
C18_Witness ==
    /\ lastOp.op = "findNearestShop"
    /\ lastOp.result # << >>
    /\ squaredDistance(<<lastOp.result[1].x, lastOp.result[1].y>>,
                       lastOp.args.x, lastOp.args.y) = 1
    /\ \E x \in DOMAIN grid, y \in DOMAIN grid[0] : grid[x][y].building = "house_small"

C19_WitnessEdge ==
    /\ lastOp.op = "findNearestShop"
    /\ lastOp.result = << >>
    /\ shopsOf(grid) \cap windowAround(lastOp.args.x, lastOp.args.y) # {}

\* the list without its ordinary pedestrians
clearOrdinary(peds) == SelectSeq(peds, LAMBDA p : p.isAI = TRUE)

\* the sum of totalMoneySpent over the pedestrians with index in S
RECURSIVE moneySpentBy(_, _)
moneySpentBy(peds, S) ==
    IF S = {} THEN 0
    ELSE LET i == CHOOSE j \in S : TRUE
         IN  peds[i].totalMoneySpent + moneySpentBy(peds, S \ {i})

\* C20: aggregateStats counts autonomous agents only: totalCount is their
\* number, shoppingCount the number of them that are shopping,
\* totalMoneySpent the sum of their totalSpent; the other pedestrians of the
\* list change no field of the result, a list without autonomous agents
\* yields zeros, and no agent is modified.
C20_StatsOverAgentsOnly ==
    [][lastOp'.op = "calculateAIPedestrianStats" =>
          LET stats  == lastOp'.result
              agents == AIIndices(pedestrians)
          IN  /\ pedestrians' = pedestrians
              /\ stats.totalCount = Cardinality(agents)
              /\ stats.shoppingCount =
                    Cardinality({i \in agents : pedestrians[i].isShopping})
              /\ stats.totalMoneySpent = moneySpentBy(pedestrians, agents)
              /\ stats = calculateAIPedestrianStats(clearOrdinary(pedestrians))
              /\ agents = {} =>
                    /\ stats.totalCount = 0
                    /\ stats.shoppingCount = 0
                    /\ stats.walkingCount = 0
                    /\ stats.idleCount = 0
                    /\ stats.averageSatisfaction.sum = 0
                    /\ stats.totalMoneySpent = 0]_vars

\* statistics of a list of two agents, one shopping and one that has spent
\* money, and an ordinary pedestrian
C20_Witness ==
    /\ lastOp.op = "calculateAIPedestrianStats"
    /\ Len(pedestrians) = 3
    /\ lastOp.result.totalCount = 2
    /\ lastOp.result.shoppingCount = 1
    /\ lastOp.result.totalMoneySpent > 0

\* the sum of satisfactionLevel over the pedestrians with index in S
RECURSIVE satisfactionOf(_, _)
satisfactionOf(peds, S) ==
    IF S = {} THEN 0
    ELSE LET i == CHOOSE j \in S : TRUE
         IN  peds[i].satisfactionLevel + satisfactionOf(peds, S \ {i})

\* the fraction is the arithmetic mean of the agents' satisfaction
isMeanSatisfaction(average, peds) ==
    LET agents == AIIndices(peds)
    IN  agents # {} =>
            average.sum * Cardinality(agents) = satisfactionOf(peds, agents) * average.count

\* C21: the averageSatisfaction of calculateAIPedestrianStats and of
\* getPedestrianStats is the arithmetic mean of the satisfaction of the
\* autonomous agents, agents at exactly 0 included, so the two agree.
C21_AverageIsMean ==
    /\ lastOp.op = "calculateAIPedestrianStats" =>
          isMeanSatisfaction(lastOp.result.averageSatisfaction, pedestrians)
    /\ lastOp.op = "getPedestrianStats" =>
          isMeanSatisfaction(lastOp.result.averageSatisfaction, pedestrians)
    /\ lastOp.op \in {"calculateAIPedestrianStats", "getPedestrianStats"} =>
          LET a == calculateAIPedestrianStats(pedestrians).averageSatisfaction
              b == getPedestrianStats(pedestrians).averageSatisfaction
          IN  a.sum * b.count = b.sum * a.count

\* the part of C21 that getPedestrianStats meets
C21_UtilsAverageIsMean ==
    lastOp.op = "getPedestrianStats" =>
        isMeanSatisfaction(lastOp.result.averageSatisfaction, pedestrians)

\* the index of the k-th ordinary pedestrian of the list
ordinaryAt(peds, k) ==
    CHOOSE i \in 1..Len(peds) :
        /\ ~peds[i].isAI
        /\ Cardinality({j \in 1..i : ~peds[j].isAI}) = k

\* a step that is one call of clearAIPedestrians
ClearStep == lastOp'.op = "clear"

\* C22: clearAll returns exactly the pedestrians that are not autonomous,
\* in their original order, drops every autonomous agent, has no other
\* effect, and is idempotent; aggregateStats of its result has totalCount 0.
C22_ClearKeepsOrdinary ==
    [][ClearStep =>
          LET kept == Len(pedestrians) - AICount(pedestrians)
          IN  /\ Len(pedestrians') = kept
              /\ \A k \in 1..kept : pedestrians'[k] = pedestrians[ordinaryAt(pedestrians, k)]
              /\ AICount(pedestrians') = 0
              /\ grid' = grid /\ gameTime' = gameTime
              /\ spawned' = spawned /\ pc' = pc
              /\ clearAIPedestrians(pedestrians') = pedestrians'
              /\ calculateAIPedestrianStats(pedestrians').totalCount = 0]_vars

\* a clear has left two ordinary pedestrians whose ids are not consecutive:
\* an agent spawned between them is gone
C22_Witness ==
    /\ lastOp.op = "clear"
    /\ Len(pedestrians) = 2
    /\ pedestrians[2].id > pedestrians[1].id + 1
    /\ gameTime > 0

\* the spatial queries that take gridSize
sizedQueries ==
    {"findResidentialBuildings", "findHeliports", "findMarinasAndPiers",
     "findAdjacentWaterTile", "findConnectedWaterTiles", "generateTourWaypoints"}

\* C23: on an empty grid or with gridSize <= 0 every spatial query returns
\* an empty list or none and does not raise, and a tick of an agent on an
\* empty grid does not raise.
C23_TotalOnEmptyGrid ==
    [][/\ (lastOp'.op \in sizedQueries
              /\ (grid = EmptyGrid \/ lastOp'.args.gridSize <= 0))
          => lastOp'.result = Returned(<< >>)
       /\ (lastOp'.op = "findNearestShop" /\ grid = EmptyGrid)
          => lastOp'.result = Returned(<< >>)
       /\ (TickStep /\ grid = EmptyGrid)
          => \A i \in AIIndices(pedestrians) :
                Begins(i) => ~findNearestShopRaises(pedestrians[i], grid)]_vars

\* the part of C23 about gridSize <= 0, the nearest-shop search and the tick
C23_TotalOnZeroSize ==
    [][/\ (lastOp'.op \in sizedQueries /\ lastOp'.args.gridSize <= 0)
          => lastOp'.result = Returned(<< >>)
       /\ (lastOp'.op = "findNearestShop" /\ grid = EmptyGrid)
          => lastOp'.result = Returned(<< >>)
       /\ (TickStep /\ grid = EmptyGrid)
          => \A i \in AIIndices(pedestrians) :
                Begins(i) => ~findNearestShopRaises(pedestrians[i], grid)]_vars

\* an agent has begun an episode on the empty grid
C23_BeganOnEmptyGrid ==
    /\ grid = EmptyGrid
    /\ lastOp.op = "tick"
    /\ \E i \in AIIndices(pedestrians) :
          pedestrians[i].isShopping /\ pedestrians[i].shoppingProgress = 0

\* the heliport type reported for a building type that always has a heliport
heliportTypeOf(building) ==
    IF building = "police_station" THEN "police" ELSE building

\* whether a heliport belongs on the tile at (x, y) of g
sited(g, x, y) ==
    LET building == g[y][x].building
    IN  \/ building \in {"hospital", "airport", "police_station"}
        \/ building = "mall" /\ (31 * x + 17 * y) % 100 >= 50

\* C24: the heliport finder includes every hospital, airport and
\* police-station tile, and a mall tile at (x, y) if and only if
\* (31*x + 17*y) mod 100 >= 50; the result is determined by the tiles'
\* coordinates and building types alone.
C24_HeliportSiting ==
    lastOp.op = "findHeliports" =>
        LET heliports == lastOp.result.value
            side      == 0..(GridLength(grid) - 1)
        IN  /\ ~lastOp.result.raised
            /\ \A x \in side, y \in side :
                  sited(grid, x, y) <=>
                      \E k \in 1..Len(heliports) :
                          /\ heliports[k].x = x /\ heliports[k].y = y
                          /\ heliports[k].type = heliportTypeOf(grid[y][x].building)
            /\ Len(heliports) = Cardinality({t \in side \X side : sited(grid, t[1], t[2])})
            /\ \A k \in 1..Len(heliports) :
                  heliports[k].x \in side /\ heliports[k].y \in side

\* a search of a town where some malls are sited and others are not
C24_Witness ==
    /\ lastOp.op = "findHeliports"
    /\ \E x, y \in 0..(HeliSize - 1) :
          /\ grid[y][x].building = "mall"
          /\ \E k \in 1..Len(lastOp.result.value) :
                lastOp.result.value[k] = [x |-> x, y |-> y, type |-> "mall", size |-> 3]
    /\ \E x, y \in 0..(HeliSize - 1) :
          /\ grid[y][x].building = "mall"
          /\ \A k \in 1..Len(lastOp.result.value) :
                <<lastOp.result.value[k].x, lastOp.result.value[k].y>> # <<x, y>>
    /\ \E k \in 1..Len(lastOp.result.value) : lastOp.result.value[k].type = "police"

\* C25: within one episode, progress is 0 at the end of the tick that begins
\* the episode, does not decrease from tick to tick while the episode lasts,
\* and is back at 0 at the end of the tick that completes it.
C25_ProgressMonotone ==
    [][\A i \in AIIndices(pedestrians) :
          LET p == pedestrians[i]
              q == pedestrians'[i]
          IN  /\ Begins(i) => q.shoppingProgress = 0
              /\ (TickStep /\ p.isShopping /\ q.isShopping)
                    => q.shoppingProgress >= p.shoppingProgress
              /\ Completes(i) => q.shoppingProgress = 0]_vars

\* an episode of 20 s that is 0.8 of its way after two frames of 8 s
C25_Witness ==
    /\ lastOp.op = "tick"
    /\ lastOp.deltaTime = 80
    /\ pedestrians[1].isShopping
    /\ pedestrians[1].shoppingDuration = 200
    /\ pedestrians[1].shoppingProgress = 800

\* the pedestrian of the list that has the given id, if there is one
withId(peds, id) == {k \in 1..Len(peds) : peds[k].id = id}

\* C26: there is no cancel path: for an agent that stays in the list,
\* isShopping turns from true to false only in a tick in which its progress
\* reaches 1, and then with the effects of completion: one more visit, the
\* budget debited and the satisfaction bonus applied.
C26_NoCancel ==
    [][\A i \in AIIndices(pedestrians) :
          \A k \in withId(pedestrians', pedestrians[i].id) :
              LET p == pedestrians[i]
                  q == pedestrians'[k]
                  deltaTime == lastOp'.deltaTime
              IN  (p.isShopping /\ ~q.isShopping) =>
                      /\ lastOp'.op = "tick"
                      /\ p.shoppingProgress * p.shoppingDuration + deltaTime * One
                            >= One * p.shoppingDuration
                      /\ q.shopVisitsToday = p.shopVisitsToday + 1
                      /\ q.shoppingBudget
                            = p.shoppingBudget - Min(q.itemsBought * 50, p.shoppingBudget)
                      /\ q.satisfactionLevel
                            = Min(One, Max(0, p.satisfactionLevel - 1 * deltaTime) + 300)]_vars

\* an episode of 20 s completed by the third of three frames of 8 s
C26_Witness ==
    /\ lastOp.op = "tick"
    /\ lastOp.deltaTime = 80
    /\ ~pedestrians[1].isShopping
    /\ pedestrians[1].shopVisitsToday = 1
    /\ pedestrians[1].shoppingDuration = 200
    /\ pedestrians[1].lastShoppingTime = 240

C28_BatchTickShape ==
    [][lastOp'.op = "tick" =>
          /\ Len(pedestrians') = Len(pedestrians)
          /\ grid' = grid
          /\ \A i \in 1..Len(pedestrians) :
                LET p == pedestrians[i]
                    q == pedestrians'[i]
                IN  /\ q.id = p.id
                    /\ ~p.isAI => q = p
                    /\ p.isAI =>
                          \E d \in PopDraws :
                              q = updateAIPedestrianShopping(p, grid, lastOp'.deltaTime,
                                                             d, gameTime')]_vars

\* a tick of 10.1 s over two agents, of which the first completed an episode,
\* and an ordinary pedestrian
C28_Witness ==
    /\ lastOp.op = "tick"
    /\ lastOp.deltaTime = 101
    /\ Len(pedestrians) = 3
    /\ AICount(pedestrians) = 2
    /\ \E i \in AIIndices(pedestrians) :
          pedestrians[i].shopVisitsToday = 1 /\ pedestrians[i].lastShoppingTime = gameTime

C30_WaypointsOnRegionOnce ==
    lastOp.op = "generateTourWaypoints" =>
        LET waypoints == lastOp.result
            region    == regionOf(grid, lastOp.args.x, lastOp.args.y)
        IN  /\ \A k \in 1..Len(waypoints) :
                  <<waypoints[k].tileX, waypoints[k].tileY>> \in region
            /\ \A j, k \in 1..Len(waypoints) :
                  j # k => <<waypoints[j].tileX, waypoints[j].tileY>>
                              # <<waypoints[k].tileX, waypoints[k].tileY>>

\* a tour on a lake smaller than the grid, with one spaced waypoint and the
\* others from the random fill
C30_Witness ==
    /\ TourReturned
    /\ lastOp.spacedCount = 1
    /\ Len(lastOp.result) >= 2
    /\ Len(lastOp.waterTiles) < TourSize * TourSize

\* the spaced waypoints of a call are within 3 units of the tile
nearSpaced(tile, waypoints, spacedCount) ==
    \E k \in 1..spacedCount :
        (tile.x - waypoints[k].tileX) * (tile.x - waypoints[k].tileX)
        + (tile.y - waypoints[k].tileY) * (tile.y - waypoints[k].tileY) < 9

\* C31: the spaced pass accepts ranked tiles that are 3 units or more from
\* every accepted waypoint until the target count is reached or the ranking
\* is exhausted, so that when it ends short of the target (and the random
\* fill contributes) no tile of the region satisfies the spacing rule.
C31_FillOnlyWhenStarved ==
    (lastOp.op = "generateTourWaypoints" /\ pc \in {"fill", "return"}
        /\ lastOp.spacedCount < lastOp.numWaypoints) =>
        \A k \in 1..Len(lastOp.waterTiles) :
            nearSpaced(lastOp.waterTiles[k], lastOp.result, lastOp.spacedCount)

\* C31 for the calls whose sort met no noise
C31_FillOnlyWhenStarvedSorted ==
    lastOp.op = "generateTourWaypoints" => (lastOp.sorted => C31_FillOnlyWhenStarved)

\* what the spaced pass does do: it accepts, of the first numWaypoints ranked
\* tiles only, those 3 units or more from all accepted before, so at most
\* numWaypoints waypoints, pairwise 3 units or more apart
C31_SpacedPassExaminesTarget ==
    lastOp.op = "generateTourWaypoints" =>
        /\ lastOp.spacedCount <= lastOp.numWaypoints
        /\ pc \in {"fill", "return"} /\ lastOp.numWaypoints > 0 => lastOp.spacedCount >= 1

\* the destination finder reports a commercial tile at (x, y)
commercialAt(destinations, x, y) ==
    \E k \in 1..Len(destinations) :
        destinations[k] = [x |-> x, y |-> y, type |-> "commercial"]

\* C32: the nearest-commercial search and the category finder agree on the
\* coordinate convention: a coordinate (x, y) returned as an agent's target
\* shop is one at which findPedestrianDestinations reports a commercial tile.
C32_SameConvention ==
    (lastOp.op = "findNearestShop" /\ lastOp.result # << >>) =>
        commercialAt(lastOp.destinations, lastOp.result[1].x, lastOp.result[1].y)

\* what holds instead: the finder reports the target with x and y exchanged
C32_TransposedConvention ==
    (lastOp.op = "findNearestShop" /\ lastOp.result # << >>) =>
        commercialAt(lastOp.destinations, lastOp.result[1].y, lastOp.result[1].x)

\* the tiles of the grid whose building type is one of types, in scan order
RECURSIVE tilesOfTypes(_, _)
tilesOfTypes(types, k) ==
    IF k > FireworkSize * FireworkSize THEN << >>
    ELSE LET x == (k - 1) % FireworkSize
             y == (k - 1) \div FireworkSize
         IN  (IF grid[y][x].building \in types
              THEN <<[x |-> x, y |-> y, type |-> grid[y][x].building]>>
              ELSE << >>)
             \o tilesOfTypes(types, k + 1)

\* C33: each call of findFireworkBuildings returns exactly the tiles whose
\* building type is in the list of types as it is at the time of that call,
\* also when the same array object is passed again after its contents were
\* changed.
C33_ResultFollowsCurrentList ==
    (lastOp.op = "findFireworkBuildings" /\ lastOp.args.gridSize > 0) =>
        lastOp.result = Returned(tilesOfTypes(lastOp.args.types, 1))

\* what holds instead: a call with another array than the one of the
\* previous search returns the tiles of the list as it is at that call
C33_OtherArrayFollowsList ==
    (lastOp.op = "findFireworkBuildings" /\ lastOp.args.gridSize > 0
        /\ lastOp.args.cached # lastOp.args.array) =>
        lastOp.result = Returned(tilesOfTypes(lastOp.args.types, 1))

\* and a call with the same array returns the tiles of the list as it was
\* when that array was first passed
C33_SameArrayKeepsList ==
    (lastOp.op = "findFireworkBuildings" /\ lastOp.args.gridSize > 0) =>
        /\ heap.cachedFireworkTypesArray = lastOp.args.array
        /\ lastOp.result = Returned(tilesOfTypes(heap.cachedFireworkTypesSet, 1))

\* the satisfaction of an agent that had 0.5 at time 0 and completed no
\* episode since
decayedHalf == Max(0, fallbackSatisfaction - satisfactionDecayRate * gameTime)

\* C34: an agent record whose satisfaction field is absent is read as
\* satisfaction 0.5 by every operation that consumes it: the decay of a tick
\* leaves 0.5 less the decay, the trigger decision uses 0.5, the completion of
\* an episode adds its bonus to the decayed 0.5, and both statistics count
\* the agent with 0.5.
C34_AbsentReadAsHalf ==
    \A i \in 1..Len(pedestrians) :
        LET p == pedestrians[i]
        IN  /\ (lastOp.op = "tick" /\ p.shopVisitsToday = 0) =>
                   p.satisfactionLevel = decayedHalf
            /\ (lastOp.op = "tick" /\ p.shopVisitsToday = 1
                   /\ p.lastShoppingTime = gameTime /\ ~p.isShopping) =>
                   p.satisfactionLevel =
                       Min(One, decayedHalf + satisfactionGainPerPurchase)
            /\ (lastOp.op = "calculateAIPedestrianStats"
                   /\ p.satisfactionLevel = undefined) =>
                   lastOp.result.averageSatisfaction =
                       [sum |-> fallbackSatisfaction, count |-> 1]
            /\ (lastOp.op = "getPedestrianStats"
                   /\ p.satisfactionLevel = undefined) =>
                   lastOp.result.averageSatisfaction =
                       [sum |-> fallbackSatisfaction, count |-> 1]

\* what holds of the decay: it leaves the absent field absent
C34_DecaySkipsAbsent ==
    \A i \in 1..Len(pedestrians) :
        pedestrians[i].shopVisitsToday = 0 =>
            pedestrians[i].satisfactionLevel = undefined

\* what holds of the completion: the bonus is added to 0
C34_BonusOnZero ==
    \A i \in 1..Len(pedestrians) :
        LET p == pedestrians[i]
        IN  (p.shopVisitsToday = 1 /\ p.lastShoppingTime = gameTime) =>
                p.satisfactionLevel = satisfactionGainPerPurchase

\* what holds of the statistics: calculateAIPedestrianStats counts the agent
\* with 0.5, getPedestrianStats with 0
C34_StatsReadHalfAndZero ==
    (\A i \in 1..Len(pedestrians) : pedestrians[i].satisfactionLevel = undefined) =>
        /\ lastOp.op = "calculateAIPedestrianStats" =>
               lastOp.result.averageSatisfaction =
                   [sum |-> fallbackSatisfaction, count |-> 1]
        /\ lastOp.op = "getPedestrianStats" =>
               lastOp.result.averageSatisfaction = [sum |-> 0, count |-> 1]

\* what holds of the trigger: an agent without the field begins an episode
\* on exactly the draws an agent with 0.5 would
C34_TriggerReadsHalf ==
    [][\A i \in 1..Len(pedestrians) :
          (lastOp'.op = "tick" /\ pedestrians[i].satisfactionLevel = undefined
              /\ ~pedestrians[i].isShopping) =>
              (pedestrians'[i].isShopping <=>
                  /\ ~Falsy(pedestrians[i].shoppingBudget)
                  /\ lastOp'.rand[i] <
                         Min(probabilityCeiling,
                             getShoppingProbabilityByType(pedestrians[i].aiType)
                             + (One - fallbackSatisfaction) * satisfactionMultiplier
                             + (Min(RandOne, (pedestrians[i].shoppingBudget * RandOne)
                                                \div maxBudget)
                                * budgetMultiplier) \div 10))]_vars

\* the money an agent holds and has spent
moneyOf(p) == p.shoppingBudget + p.totalMoneySpent

\* C35: for every autonomous agent, budget + totalSpent is constant over its
\* life: the agent enters the list with the budget drawn at spawn and nothing
\* spent, and every tick leaves the sum as it was.
C35_MoneyConserved ==
    [][/\ (lastOp'.op = "push" /\ spawned # << >>) =>
              /\ pedestrians'[Len(pedestrians')].totalMoneySpent = 0
              /\ moneyOf(pedestrians'[Len(pedestrians')]) = spawned[1].shoppingBudget
       /\ TickStep =>
              \A i \in AIIndices(pedestrians) :
                  moneyOf(pedestrians'[i]) = moneyOf(pedestrians[i])]_vars

\* an agent that drew 530, bought twice for 250 and then five items with the
\* 30 it had left
C35_Witness ==
    \E i \in AIIndices(pedestrians) :
        /\ lastOp.op = "tick"
        /\ pedestrians[i].lastShoppingTime = gameTime
        /\ pedestrians[i].itemsBought = 5
        /\ pedestrians[i].shoppingBudget = 0
        /\ pedestrians[i].totalMoneySpent = 530

\* C36: an agent whose budget is 0 never begins an episode, whatever its
\* satisfaction and archetype; every completed episode debits a strictly
\* positive amount; and once the budget is 0 the agent is not shopping and
\* stays so, with a satisfaction that only decays.
C36_BrokeNeverShops ==
    [][\A i \in AIIndices(pedestrians) :
          /\ pedestrians[i].shoppingBudget = 0 => ~pedestrians[i].isShopping
          /\ Completes(i) =>
                pedestrians[i].shoppingBudget - pedestrians'[i].shoppingBudget > 0
          /\ (TickStep /\ pedestrians[i].shoppingBudget = 0) =>
                /\ ~pedestrians'[i].isShopping
                /\ pedestrians'[i].shoppingBudget = 0
                /\ pedestrians'[i].satisfactionLevel
                       = Max(0, pedestrians[i].satisfactionLevel
                                  - satisfactionDecayRate * lastOp'.deltaTime)]_vars

\* an agent that spent its last money earlier, whose trigger has just drawn
\* the lowest number and begun nothing
C36_Witness ==
    \E i \in AIIndices(pedestrians) :
        /\ lastOp.op = "tick"
        /\ lastOp.deltaTime > 0
        /\ lastOp.rand[i] = 0
        /\ pedestrians[i].shoppingBudget = 0
        /\ pedestrians[i].lastShoppingTime < gameTime
        /\ pedestrians[i].shopVisitsToday >= 2
        /\ ~pedestrians[i].isShopping

\* C37: a tick performs at most one lifecycle transition per agent: the tick
\* that begins an episode leaves its progress at 0 and completes nothing; the
\* tick that completes an episode leaves the agent not shopping with progress
\* 0, whatever its trigger would draw; and a tick completes at most one
\* episode, however large deltaTime is against the duration.
C37_OneTransitionPerTick ==
    [][TickStep =>
          \A i \in AIIndices(pedestrians) :
              LET p == pedestrians[i]
                  q == pedestrians'[i]
              IN  /\ q.shopVisitsToday - p.shopVisitsToday \in {0, 1}
                  /\ (~p.isShopping /\ q.isShopping) =>
                        /\ q.shoppingProgress = 0
                        /\ q.shopVisitsToday = p.shopVisitsToday
                  /\ ~p.isShopping => q.shopVisitsToday = p.shopVisitsToday
                  /\ q.shopVisitsToday = p.shopVisitsToday + 1 =>
                        /\ p.isShopping
                        /\ ~q.isShopping
                        /\ q.shoppingProgress = 0]_vars

\* a tick of 50 s has completed the first episode, of 10 s, and nothing more
C37_Witness ==
    \E i \in AIIndices(pedestrians) :
        /\ lastOp.op = "tick"
        /\ lastOp.deltaTime = 500
        /\ pedestrians[i].shoppingDuration = 100
        /\ pedestrians[i].lastShoppingTime = gameTime
        /\ pedestrians[i].shopVisitsToday = 1
        /\ ~pedestrians[i].isShopping
        /\ pedestrians[i].shoppingProgress = 0

\* a tick of 50 s has begun an episode of 10 s and left it at progress 0
C37_BeginWitness ==
    \E i \in AIIndices(pedestrians) :
        /\ lastOp.op = "tick"
        /\ lastOp.deltaTime = 500
        /\ pedestrians[i].shoppingDuration = 100
        /\ pedestrians[i].isShopping
        /\ pedestrians[i].shoppingProgress = 0
        /\ pedestrians[i].shopVisitsToday = 1

\* C38: after any sequence of spawns with their appends, initial
\* populations, removals of agents and clears, the ids of the pedestrians in
\* the list are pairwise distinct, and a spawn assigns an id greater than
\* every id in the list it is given.
C38_IdsDistinct ==
    /\ \A i, j \in 1..Len(pedestrians) :
          i # j => pedestrians[i].id # pedestrians[j].id
    /\ (pc = "spawned" /\ spawned # << >>) =>
          \A i \in 1..Len(pedestrians) : spawned[1].id > pedestrians[i].id

\* after evictions of the agents with the lower ids, the list holds two
\* agents with the ids 3 and 4
C38_Witness ==
    /\ lastOp.op = "push"
    /\ Len(pedestrians) = 2
    /\ pedestrians[1].id = 3
    /\ pedestrians[2].id = 4

\* C39: in the statistics calculateAIPedestrianStats returns, shoppingCount,
\* walkingCount and idleCount count pairwise disjoint sets of agents, so their
\* sum is at most totalCount.
C39_CountsDisjoint ==
    lastOp.op = "calculateAIPedestrianStats" =>
        lastOp.result.shoppingCount + lastOp.result.walkingCount
            + lastOp.result.idleCount <= lastOp.result.totalCount

\* what holds instead: walkingCount and idleCount are disjoint and each count
\* is at most totalCount, and every agent, shopping or not, counts as walking
C39_ShoppersCountAsWalking ==
    lastOp.op = "calculateAIPedestrianStats" =>
        /\ lastOp.result.walkingCount + lastOp.result.idleCount
               <= lastOp.result.totalCount
        /\ lastOp.result.shoppingCount <= lastOp.result.totalCount
        /\ lastOp.result.walkingCount = lastOp.result.totalCount

====
